---- MODULE Spec2Model ----
(***************************************************************************)
(* Slack -> Google Sheets recorder: the destination-table adapter          *)
(* (sheets.Client), the history retrieval with its progress checkpoint     *)
(* (slack.Client, progress.Manager) and the event router (HandleEvent).    *)
(*                                                                         *)
(* One channel is modelled.  A message is identified by its Slack ts; the  *)
(* model numbers the channel's messages 1, 2, ... in posting order and     *)
(* keeps, next to that identifier, the whole second the ts falls in        *)
(* (convertSlackTimestampToJST keeps int64(ts) only).                      *)
(***************************************************************************)
EXTENDS Integers, Sequences, FiniteSets, TLC

\* ------------------------------------------------------------------ bounds
\* messages ever posted to the channel
MaxMsgs == 2
\* records handed to one adapter call of the store specification
MaxBatch == 2
\* records handed to the adapter in one run of the store specification
MaxWritten == 3
\* distinct message identifiers of the store specification
MaxIds == 3

\* goroutines alive at once (event handlers and scheduled retries)
NumProcs == 2
\* events delivered to HandleEvent in one run
MaxEvents == 3
\* failed external calls (Slack or Sheets) in one run
MaxFailures == 1
\* process restarts in one run
MaxCrashes == 1
\* messages per conversations.history page of the backfill (pageLimit, scaled down)
PageLimit == 1
\* users whose member_joined_channel events are delivered
NumUsers == 2
\* posts, deliveries, failures and restarts in one run, taken together
MaxEnv == 4
\* messages in the channel when a backfill job running alone starts
MaxOld == 2
\* messages in the channel when a backfill job running alone ends
MaxJobMsgs == 4
\* distinct errors an operation run by retryWithBackoff may return
NumErrors == 3
\* message_changed events handled in one run of the store
MaxAfterMsgs == 3
MaxAfterSec == 2
\* handlers running at once, and events delivered, where the mutexes are followed
NumHandlers == 3
MaxLockEvents == 3
MaxEdits == 1

\* ------------------------------------------------------- program constants
\* recentMemberJoins: a join within this many seconds of the last is skipped
JoinSkipSeconds == 30
\* getMessagesAfterTime: pageLimit
AfterPageLimit == 50
\* the delay of the retry scheduled after a rate limit error
RetryDelaySeconds == 180
\* retryWithBackoff: attempts per operation
maxRetryAttempts == 4

VARIABLES
    sheet,              \* Values of the channel's sheet: header row, then data rows; << >> = no sheet
    log,                \* store specification: the adapter calls made so far
    now,                \* wall clock, whole seconds
    msgs,               \* the channel on Slack: msgs[i] is the message with identifier i
    progress,           \* the channel's checkpoint file, or NoProgress
    processingEvents,   \* in-flight event keys
    recentMemberJoins,  \* time of the last accepted member join, or NoTime
    historyInProgress,  \* the channel's history-in-progress flag
    historyStartTime,   \* the channel's entry of historyStartTime, or NoTime
    retries,            \* goroutines of scheduleHistoryRetry still in their sleep
    procs,              \* the goroutines running HandleEvent or a retry
    joinLog,            \* every member_joined_channel delivery and what became of it
    budget              \* events delivered, failures injected, restarts so far

engineVars == <<now, msgs, progress, processingEvents, recentMemberJoins,
                historyInProgress, historyStartTime, retries, procs, joinLog, budget>>
vars == <<sheet, log, now, msgs, progress, processingEvents, recentMemberJoins,
          historyInProgress, historyStartTime, retries, procs, joinLog, budget>>

\* ------------------------------------------------- sheets.Client, pure part
\* expectedHeaders, as one row of the Values
HeaderRow == [no |-> 0, sec |-> 0, parent |-> 0, id |-> 0, text |-> "header"]

\* a MessageRecord: MessageTS, Timestamp (whole seconds), ThreadTS (0 = "")
Rec(i, s, t) == [id |-> i, sec |-> s, thread |-> t]

\* one row of values: No., timestamp, text, thread parent No. (0 = ""), MessageTS
Row(n, r, p) == [no |-> n, sec |-> r.sec, parent |-> p, id |-> r.id, text |-> "text"]

messageExistsInData(sheetData, messageTS) ==
    \E i \in 2..Len(sheetData) : sheetData[i].id = messageTS

getNextRowNumberFromData_off(sheetData) ==
    Len(sheetData) + 1

getNextRowNumberFromData(sheetData) ==
    IF Len(sheetData) <= 1 THEN 1 ELSE Len(sheetData)

\* the same search returning the position of the row instead of its No.
findThreadParentNoInData_index(sheetData, threadTS) ==
    LET hits == {i \in 2..Len(sheetData) : sheetData[i].id = threadTS}
    IN  IF hits = {} THEN 0 ELSE CHOOSE i \in hits : \A k \in hits : i <= k

findThreadParentNoInData(sheetData, threadTS) ==
    LET hits == {i \in 2..Len(sheetData) : sheetData[i].id = threadTS}
    IN  IF hits = {} THEN 0
        ELSE sheetData[CHOOSE i \in hits : \A k \in hits : i <= k].no

\* sort.Slice(records, Timestamp.Before) is not stable: the records come out
\* in non-decreasing Timestamp order, records of one second in any order.
\* InsertionsByTimestamp: the sorted sequences with r put into sorted
InsertionsByTimestamp(sorted, r) ==
    {SubSeq(sorted, 1, k) \o <<r>> \o SubSeq(sorted, k + 1, Len(sorted)) :
        k \in {k \in 0..Len(sorted) :
                  /\ k = 0 \/ sorted[k].sec <= r.sec
                  /\ k = Len(sorted) \/ r.sec <= sorted[k + 1].sec}}

\* the outcomes of the sort
RECURSIVE SortOutcomes(_)
SortOutcomes(records) ==
    IF records = << >> THEN {<< >>}
    ELSE UNION {InsertionsByTimestamp(sorted, records[Len(records)]) :
                   sorted \in SortOutcomes(SubSeq(records, 1, Len(records) - 1))}

RECURSIVE FilterNew(_, _)
FilterNew(sheetData, records) ==
    IF records = << >> THEN << >>
    ELSE LET rest == FilterNew(sheetData, SubSeq(records, 1, Len(records) - 1))
             r    == records[Len(records)]
         IN  IF messageExistsInData(sheetData, r.id) THEN rest ELSE Append(rest, r)

\* the first earlier record of the batch that is the thread parent (0 = none)
BatchParentIndex(records, i) ==
    LET hits == {j \in 1..(i - 1) : records[j].id = records[i].thread}
    IN  IF hits = {} THEN 0 ELSE CHOOSE j \in hits : \A k \in hits : j <= k

\* WriteMessage, from the loaded sheetData on: the rows it appends
WriteMessageRows(sheetData, record) ==
    IF messageExistsInData(sheetData, record.id) THEN << >>
    ELSE LET nextRowNumber == getNextRowNumberFromData(sheetData)
             threadParentNo ==
                 IF record.thread # 0 /\ record.thread # record.id
                 THEN findThreadParentNoInData(sheetData, record.thread)
                 ELSE 0
         IN  <<Row(nextRowNumber, record, threadParentNo)>>

\* WriteBatchMessages, from the sorted records and the loaded sheetData on:
\* the rows it appends
WriteBatchRows(sheetData, sorted) ==
    LET newRecords     == FilterNew(sheetData, sorted)
        startRowNumber == getNextRowNumberFromData(sheetData)
        parentNo(i) ==
            LET r == newRecords[i]
            IN  IF r.thread # 0 /\ r.thread # r.id
                THEN LET p == findThreadParentNoInData(sheetData, r.thread)
                         j == BatchParentIndex(newRecords, i)
                     IN  IF p > 0 THEN p
                         ELSE IF j > 0 THEN startRowNumber + j - 1 ELSE 0
                ELSE 0
    IN  [i \in 1..Len(newRecords) |->
            Row(startRowNumber + i - 1, newRecords[i], parentNo(i))]

\* WriteBatchMessagesFromRow2, from the sorted records on: the values it
\* writes at A2:G(n+1)
FromRow2Rows_from0(sorted) == [i \in 1..Len(sorted) |-> Row(i - 1, sorted[i], 0)]

FromRow2Rows(sorted) ==
    LET parentNo(i) ==
            LET r == sorted[i]
            IN  IF r.thread # 0 /\ r.thread # r.id
                THEN BatchParentIndex(sorted, i)
                ELSE 0
    IN  [i \in 1..Len(sorted) |-> Row(i, sorted[i], parentNo(i))]

\* the rows of the table whose message id column holds messageTS
RowsAt(sheetData, messageTS) == {k \in 2..Len(sheetData) : sheetData[k].id = messageTS}

\* Values.Append on A:G: the rows go below the last row of the table
AppendRows(values, rows) == values \o rows

\* Values.Update on A2:G(n+1): rows 2..n+1 are overwritten, later rows stay
UpdateFromRow2(values, rows) ==
    <<values[1]>> \o rows \o SubSeq(values, Len(rows) + 2, Len(values))

\* ClearSheetData: DeleteDimension ROWS from index 1
ClearRows(values) == <<values[1]>>

\* ensureChannelSheetExists: a missing sheet is created with the header
ensureChannelSheetExists(values) == IF values = << >> THEN <<HeaderRow>> ELSE values

\* ---------------------------------------------------- store specification
\* Sequential adapter calls on one table that starts with the header only.
\* Identifiers 1 and 2 fall in the same second; 2 is a reply in the thread of 1.
StoreIds == 1..MaxIds
StoreRecs == {Rec(i, (i + 1) \div 2, IF i = 2 THEN 1 ELSE 0) : i \in StoreIds}
StoreBatches == UNION {[1..n -> StoreRecs] : n \in 1..MaxBatch}

RECURSIVE Handed(_)
Handed(calls) ==
    IF calls = << >> THEN 0
    ELSE Handed(SubSeq(calls, 1, Len(calls) - 1)) + Len(calls[Len(calls)].recs)

StoreInit ==
    /\ sheet = <<HeaderRow>>
    /\ log = << >>
    /\ now = 0
    /\ msgs = << >>
    /\ progress = [phase |-> "none", cursor |-> 0, messages |-> << >>]
    /\ processingEvents = {}
    /\ recentMemberJoins = -1
    /\ historyInProgress = FALSE
    /\ historyStartTime = -1
    /\ retries = << >>
    /\ procs = << >>
    /\ joinLog = << >>
    /\ budget = [events |-> 0, failures |-> 0, crashes |-> 0]

\* WriteMessage; apiOk: whether Values.Append succeeds
StoreWriteOne(r, apiOk) ==
    LET rows == WriteMessageRows(sheet, r)
    IN  /\ Handed(log) + 1 <= MaxWritten
        /\ sheet' = IF apiOk THEN AppendRows(sheet, rows) ELSE sheet
        /\ log' = Append(log, [op |-> "writeOne", recs |-> <<r>>,
                               ok |-> (rows = << >> \/ apiOk)])
        /\ UNCHANGED engineVars

\* WriteBatchMessages; apiOk: whether Values.Append succeeds within the 4 attempts
StoreWriteBatch(rs, apiOk) ==
    \E sorted \in SortOutcomes(rs) :
    LET rows == WriteBatchRows(sheet, sorted)
    IN  /\ Handed(log) + Len(rs) <= MaxWritten
        /\ sheet' = IF apiOk THEN AppendRows(sheet, rows) ELSE sheet
        /\ log' = Append(log, [op |-> "writeBatch", recs |-> rs,
                               ok |-> (rows = << >> \/ apiOk)])
        /\ UNCHANGED engineVars

StoreNext ==
    \/ \E r \in StoreRecs, apiOk \in BOOLEAN : StoreWriteOne(r, apiOk)
    \/ \E rs \in StoreBatches, apiOk \in BOOLEAN : StoreWriteBatch(rs, apiOk)

SpecStore == StoreInit /\ [][StoreNext]_vars

\* WriteBatchMessagesFromRow2 called on the table the other calls have left;
\* apiOk: whether Values.Update succeeds within the 4 attempts
StoreWriteFromRow2(rs, apiOk) ==
    \E sorted \in SortOutcomes(rs) :
        /\ Handed(log) + Len(rs) <= MaxWritten
        /\ sheet' = IF apiOk
                    THEN UpdateFromRow2(ensureChannelSheetExists(sheet), FromRow2Rows(sorted))
                    ELSE sheet
        /\ log' = Append(log, [op |-> "writeFromRow2", recs |-> rs, ok |-> apiOk])
        /\ UNCHANGED engineVars

Row2Next ==
    \/ StoreNext
    \/ \E rs \in StoreBatches, apiOk \in BOOLEAN : StoreWriteFromRow2(rs, apiOk)

SpecRow2 == StoreInit /\ [][Row2Next]_vars

\* ------------------------------------------------------ Slack, pure part
\* msgs[i] = [sec, thread, kind]: thread = 0 for a top-level message, else the
\* identifier of the thread's parent; kind = "plain", "mention" (the text
\* holds "<@bot>") or "reset" (a mention whose text holds "reset").
RepliesOf(ms, root) == {i \in 1..Len(ms) : ms[i].thread = root}

\* thread_ts = ts: the message has replies
IsThreadRoot(ms, i) == ms[i].thread = 0 /\ RepliesOf(ms, i) # {}

RECURSIVE Descending(_)
Descending(S) ==
    IF S = {} THEN << >>
    ELSE LET m == CHOOSE x \in S : \A y \in S : y <= x
         IN  <<m>> \o Descending(S \ {m})

RECURSIVE Ascending(_)
Ascending(S) ==
    IF S = {} THEN << >>
    ELSE LET m == CHOOSE x \in S : \A y \in S : x <= y
         IN  <<m>> \o Ascending(S \ {m})

Take(seq, n) == SubSeq(seq, 1, IF Len(seq) < n THEN Len(seq) ELSE n)

\* the MessageRecord built from a HistoryMessage
HistoryRecord(ms, i) ==
    Rec(i, ms[i].sec,
        IF ms[i].thread # 0 THEN ms[i].thread
        ELSE IF IsThreadRoot(ms, i) THEN i ELSE 0)

\* the MessageRecord built from a message or app_mention event
EventRecord(ms, i) == Rec(i, ms[i].sec, ms[i].thread)

\* conversations.history: top-level messages, newest first, older than the
\* cursor (0 = none), with ts > oldest (oldest is a whole second, -1 = none)
HistoryResp(ms, cursor, oldest, limit) ==
    LET cand == Descending({i \in 1..Len(ms) :
                    /\ ms[i].thread = 0
                    /\ (cursor = 0 \/ i < cursor)
                    /\ ms[i].sec >= oldest})
        page == Take(cand, limit)
    IN  [messages   |-> page,
         hasMore    |-> Len(cand) > limit,
         nextCursor |-> IF Len(cand) > limit THEN page[Len(page)] ELSE 0]

\* getThreadReplies: conversations.replies without its first message
getThreadReplies(ms, threadTS) == Ascending(RepliesOf(ms, threadTS))

\* the reply records fetched for the thread roots of one page, in page order
RECURSIVE ThreadRecords(_, _)
ThreadRecords(ms, page) ==
    IF page = << >> THEN << >>
    ELSE LET m == page[Len(page)]
             replies == getThreadReplies(ms, m)
         IN  ThreadRecords(ms, SubSeq(page, 1, Len(page) - 1)) \o
             (IF IsThreadRoot(ms, m)
              THEN [k \in 1..Len(replies) |-> HistoryRecord(ms, replies[k])]
              ELSE << >>)

\* GetChannelHistoryWithProgress: the pageRecords of one page
PageRecords(ms, page) ==
    [k \in 1..Len(page) |-> HistoryRecord(ms, page[k])] \o ThreadRecords(ms, page)

\* getMessagesAfterTime: replies newer than afterTime of the roots newer than afterTime
RECURSIVE AfterThreadRecords(_, _, _)
AfterThreadRecords(ms, afterSec, page) ==
    IF page = << >> THEN << >>
    ELSE LET m == page[Len(page)]
             newer(i) == ms[i].sec > afterSec
             replies == SelectSeq(getThreadReplies(ms, m), newer)
         IN  AfterThreadRecords(ms, afterSec, SubSeq(page, 1, Len(page) - 1)) \o
             (IF IsThreadRoot(ms, m) /\ ms[m].sec > afterSec
              THEN [k \in 1..Len(replies) |-> HistoryRecord(ms, replies[k])]
              ELSE << >>)

\* getMessagesAfterTime: the paging loop, stopped at the first page that holds
\* a message at or before afterTime
RECURSIVE AfterLoop(_, _, _, _)
AfterLoop(ms, afterSec, cursor, acc) ==
    LET resp    == HistoryResp(ms, cursor, afterSec, AfterPageLimit)
        page    == resp.messages
        older   == {k \in 1..Len(page) : ms[page[k]].sec <= afterSec}
        kept    == IF older = {} THEN page
                   ELSE SubSeq(page, 1, (CHOOSE k \in older : \A j \in older : k <= j) - 1)
        acc2    == acc \o [k \in 1..Len(kept) |-> HistoryRecord(ms, kept[k])]
                       \o (IF older = {} THEN AfterThreadRecords(ms, afterSec, page)
                           ELSE << >>)
    IN  IF older # {} \/ ~resp.hasMore \/ resp.nextCursor = 0
        THEN acc2
        ELSE AfterLoop(ms, afterSec, resp.nextCursor, acc2)

\* the results getMessagesAfterTime may return
getMessagesAfterTime(ms, afterSec) == SortOutcomes(AfterLoop(ms, afterSec, 0, << >>))

\* ------------------------------------------------------------ the engine
Procs == 1..NumProcs
Users == 1..NumUsers
NoTime == -1
NoProgress == [phase |-> "none", cursor |-> 0, messages |-> << >>]

\* config.Config as HandleEvent sees it: TRUE stands for a non-empty string
SetCfg == [GoogleSheetsCredentials |-> TRUE, SpreadsheetID |-> TRUE]
Cfgs == [GoogleSheetsCredentials : BOOLEAN, SpreadsheetID : BOOLEAN]

\* the same test passing whatever the configuration is
Configured_always(cfg) == TRUE

\* cfg.GoogleSheetsCredentials != "" && cfg.SpreadsheetID != ""
Configured(cfg) == cfg.GoogleSheetsCredentials /\ cfg.SpreadsheetID

\* one of the two values, or both, is the empty string
UnsetCfgs == Cfgs \ {SetCfg}

\* the texts of the messages that mention the bot; the kind of a message is its text
MentionTexts == {"mention", "reset", "Reset", "show me", "Reset show me"}

\* strings.ToLower on these texts
ToLower(text) ==
    CASE text = "Reset" -> "reset"
      [] text = "Reset show me" -> "reset show me"
      [] OTHER -> text

\* strings.Contains on these texts
Contains(text, substr) ==
    \/ text = substr
    \/ text = "reset show me" /\ substr \in {"reset", "show me"}
    \/ text = "Reset show me" /\ substr \in {"Reset", "show me"}

\* a text that mentions another user and not the bot: no app_mention event follows
UserMentionText == "hi <@U2>"

\* strings.Contains(event.Event.Text, "<@") on these texts
ContainsMarker(text) == text \in MentionTexts \cup {UserMentionText}

isResetRequest(text) == Contains(ToLower(text), "reset")
isShowMeCmd(text) == Contains(ToLower(text), "show me")

IdleProc ==
    [pc |-> "idle", type |-> "none", subj |-> 0, jix |-> 0, cfg |-> SetCfg,
     sheetData |-> << >>, isInitial |-> FALSE, originalStartTime |-> 0, n0 |-> 0,
     cursor |-> 0, allRecords |-> << >>, loaded |-> "none", interrupted |-> FALSE,
     startTime |-> 0, newMessages |-> << >>, nRecords |-> 0]

\* performHistoryRetrievalWithStartTime is running
JobPcs == {"j_begin", "j_page", "j_final", "j_write", "j_phase",
           "j_delete", "j_after", "j_newappend"}
\* ... and has set the flag, so that its deferred function clears it
FlagPcs == JobPcs \ {"j_begin"}

EventKey(pr) ==
    IF pr.type = "member_joined_channel" THEN {<<"member_joined", pr.subj>>}
    ELSE IF pr.type = "app_mention" THEN {<<"app_mention", pr.subj>>}
    ELSE {}

Init ==
    /\ sheet = << >>
    /\ log = << >>
    /\ now = 0
    /\ msgs = << >>
    /\ progress = NoProgress
    /\ processingEvents = {}
    /\ recentMemberJoins = NoTime
    /\ historyInProgress = FALSE
    /\ historyStartTime = NoTime
    /\ retries = << >>
    /\ procs = [p \in Procs |-> IdleProc]
    /\ joinLog = << >>
    /\ budget = [events |-> 0, failures |-> 0, crashes |-> 0]

\* what the environment has done so far: posts, deliveries, failures, restarts
Spent == Len(msgs) + budget.events + budget.failures + budget.crashes
CanDeliver == budget.events < MaxEvents /\ Spent < MaxEnv
CanFail == budget.failures < MaxFailures /\ Spent < MaxEnv
Failed == [budget EXCEPT !.failures = @ + 1]

\* --- the environment
\* a user posts a message; d seconds have passed since the last clock reading
PostMsg(kind, thread, d) ==
    /\ thread # 0 => thread \in 1..Len(msgs) /\ msgs[thread].thread = 0 /\ kind = "plain"
    /\ now' = now + d
    /\ msgs' = Append(msgs, [sec |-> now + d, thread |-> thread, kind |-> kind])
    /\ UNCHANGED <<sheet, log, progress, processingEvents, recentMemberJoins,
                   historyInProgress, historyStartTime, retries, procs, joinLog, budget>>

Post(kind, thread, d) ==
    /\ Len(msgs) < MaxMsgs /\ Spent < MaxEnv
    /\ PostMsg(kind, thread, d)

FreeProc(p) == procs[p].pc = "idle" /\ \A q \in Procs : q < p => procs[q].pc # "idle"

\* main.go: HandleEvent runs in a goroutine of its own for every delivery;
\* Slack may deliver an event more than once
HandleEventMessage(cfg, p, m) ==
    /\ FreeProc(p) /\ CanDeliver
    /\ m \in 1..Len(msgs)
    /\ procs' = [procs EXCEPT ![p] = [IdleProc EXCEPT !.pc = "msg_flag", !.cfg = cfg,
                                          !.type = "message", !.subj = m]]
    /\ budget' = [budget EXCEPT !.events = @ + 1]
    /\ UNCHANGED <<sheet, log, now, msgs, progress, processingEvents, recentMemberJoins,
                   historyInProgress, historyStartTime, retries, joinLog>>

\* main.go: the configuration is loaded once, with both values set
\* (the message events of mentions end at the "<@" check and are left out here)
DeliverMessage(p, m) ==
    \E cfg \in {SetCfg} :
        /\ m \in 1..Len(msgs) /\ msgs[m].kind = "plain"
        /\ HandleEventMessage(cfg, p, m)

HandleEventAppMention(cfg, p, m) ==
    /\ FreeProc(p) /\ CanDeliver
    /\ m \in 1..Len(msgs) /\ msgs[m].kind \in MentionTexts
    /\ procs' = [procs EXCEPT ![p] = [IdleProc EXCEPT !.pc = "am_check", !.cfg = cfg,
                                          !.type = "app_mention", !.subj = m]]
    /\ budget' = [budget EXCEPT !.events = @ + 1]
    /\ UNCHANGED <<sheet, log, now, msgs, progress, processingEvents, recentMemberJoins,
                   historyInProgress, historyStartTime, retries, joinLog>>

DeliverAppMention(p, m) == \E cfg \in {SetCfg} : HandleEventAppMention(cfg, p, m)

HandleEventMemberJoined(cfg, p, u, d) ==
    /\ FreeProc(p) /\ CanDeliver
    /\ u = 1 \/ \E k \in 1..Len(joinLog) : joinLog[k].user = u - 1
    \* a long pause is taken only where the code can tell it from a short one,
    \* and never while a handler is between its delivery and its checks
    /\ d = JoinSkipSeconds =>
           /\ recentMemberJoins # NoTime
           /\ \A q \in Procs : procs[q].pc \notin {"mj_check", "mj_recent"}
    /\ now' = now + d
    /\ joinLog' = Append(joinLog, [user |-> u, at |-> now + d, outcome |-> "pending",
                                    epoch |-> budget.crashes])
    /\ procs' = [procs EXCEPT ![p] = [IdleProc EXCEPT !.pc = "mj_check", !.cfg = cfg,
                                          !.type = "member_joined_channel", !.subj = u,
                                          !.jix = Len(joinLog) + 1]]
    /\ budget' = [budget EXCEPT !.events = @ + 1]
    /\ UNCHANGED <<sheet, log, msgs, progress, processingEvents, recentMemberJoins,
                   historyInProgress, historyStartTime, retries>>

DeliverMemberJoined(p, u, d) == \E cfg \in {SetCfg} : HandleEventMemberJoined(cfg, p, u, d)

\* the process is restarted: memory is lost, the sheet and the checkpoint stay
Crash ==
    /\ budget.crashes < MaxCrashes /\ Spent < MaxEnv
    /\ \E p \in Procs : procs[p].pc # "idle"
    /\ procs' = [p \in Procs |-> IdleProc]
    /\ processingEvents' = {}
    /\ recentMemberJoins' = NoTime
    /\ historyInProgress' = FALSE
    /\ historyStartTime' = NoTime
    /\ retries' = << >>
    /\ budget' = [budget EXCEPT !.crashes = @ + 1]
    /\ UNCHANGED <<sheet, log, now, msgs, progress, joinLog>>

\* --- HandleEvent, message
\* the history-in-progress check, then the "<@" check
SkipForHistory_never == FALSE

\* historyInProgress[event.Event.Channel], read under historyProgressMutex
SkipForHistory == historyInProgress

MsgCheckFlag(p) ==
    /\ procs[p].pc = "msg_flag"
    /\ procs' = [procs EXCEPT ![p] =
            IF SkipForHistory \/ ContainsMarker(msgs[procs[p].subj].kind)
            THEN IdleProc ELSE [@ EXCEPT !.pc = "w_read"]]
    /\ UNCHANGED <<sheet, log, now, msgs, progress, processingEvents, recentMemberJoins,
                   historyInProgress, historyStartTime, retries, joinLog, budget>>

\* --- HandleEvent, app_mention
AmCheck(p) ==
    /\ procs[p].pc = "am_check"
    /\ IF EventKey(procs[p]) \subseteq processingEvents
       THEN /\ procs' = [procs EXCEPT ![p] = IdleProc]
            /\ UNCHANGED processingEvents
       ELSE /\ procs' = [procs EXCEPT ![p].pc = "w_read"]
            /\ processingEvents' = processingEvents \cup EventKey(procs[p])
    /\ UNCHANGED <<sheet, log, now, msgs, progress, recentMemberJoins,
                   historyInProgress, historyStartTime, retries, joinLog, budget>>

\* --- recordSingleMessage -> WriteMessage
\* where the goroutine goes once the single message is recorded (or skipped, or failed)
\* for an app_mention: the show-me test comes first, then the reset test
AfterRecord(pr) ==
    IF pr.type # "app_mention" THEN IdleProc
    ELSE IF isShowMeCmd(msgs[pr.subj].kind) THEN [pr EXCEPT !.pc = "am_showme"]
    ELSE IF ~isResetRequest(msgs[pr.subj].kind) THEN IdleProc
    ELSE [pr EXCEPT !.pc = "am_clear", !.sheetData = << >>]

\* what HandleEvent returned when it returned without a request to the
\* spreadsheet having failed; store tells whether such a request was made
Returned(ok, store) ==
    <<[op |-> "HandleEvent", ok |-> ok, fault |-> IF ok THEN "none" ELSE "sheets",
       store |-> store]>>

\* return nil before any request to the spreadsheet: HandleEvent's deferred
\* function removes the event key, the flag is left as it is
ReturnNil(p) ==
    /\ procs' = [procs EXCEPT ![p] = IdleProc]
    /\ processingEvents' = processingEvents \ EventKey(procs[p])
    /\ log' = Returned(TRUE, FALSE)

\* the same step with the deferred delete left out
ReleaseIfDone_kept(pr2, pr) == processingEvents

\* HandleEvent's deferred delete(processingEvents, eventKey) runs when the handler returns
ReleaseIfDone(pr2, pr) ==
    IF pr2.pc = "idle" THEN processingEvents \ EventKey(pr) ELSE processingEvents

\* ensureChannelSheetExists, getSheetData, messageExistsInData
\* without the configuration the message is logged only and nil is returned
WriteRead(p) ==
    LET data == ensureChannelSheetExists(sheet)
        pr   == procs[p]
        next == IF ~Configured(pr.cfg) \/ messageExistsInData(data, pr.subj)
                THEN AfterRecord(pr)
                ELSE [pr EXCEPT !.pc = "w_append", !.sheetData = data]
    IN  /\ pr.pc = "w_read"
        /\ sheet' = IF Configured(pr.cfg) THEN data ELSE sheet
        /\ procs' = [procs EXCEPT ![p] = next]
        /\ processingEvents' = ReleaseIfDone(next, pr)
        /\ log' = IF ~Configured(pr.cfg) /\ next.pc = "idle" THEN Returned(TRUE, FALSE) ELSE log
        /\ UNCHANGED <<now, msgs, progress, recentMemberJoins,
                       historyInProgress, historyStartTime, retries, joinLog, budget>>

\* Values.Append of the one row computed from the loaded data
WriteAppend(p) ==
    LET pr   == procs[p]
        next == AfterRecord(pr)
    IN  /\ pr.pc = "w_append"
        /\ sheet' = AppendRows(sheet, WriteMessageRows(pr.sheetData, EventRecord(msgs, pr.subj)))
        /\ procs' = [procs EXCEPT ![p] = next]
        /\ processingEvents' = ReleaseIfDone(next, pr)
        /\ UNCHANGED <<log, now, msgs, progress, recentMemberJoins,
                       historyInProgress, historyStartTime, retries, joinLog, budget>>

\* Values.Append fails: the error is returned (message) or logged (app_mention)
WriteAppendFail(p) ==
    LET pr   == procs[p]
        next == AfterRecord(pr)
    IN  /\ pr.pc = "w_append" /\ CanFail
        /\ budget' = Failed
        /\ procs' = [procs EXCEPT ![p] = next]
        /\ processingEvents' = ReleaseIfDone(next, pr)
        /\ UNCHANGED <<sheet, log, now, msgs, progress, recentMemberJoins,
                       historyInProgress, historyStartTime, retries, joinLog>>

\* --- HandleEvent, member_joined_channel
SetOutcome(jl, k, o) == IF k = 0 THEN jl ELSE [jl EXCEPT ![k].outcome = o]

\* the in-flight check under processingMutex
MjCheck(p) ==
    /\ procs[p].pc = "mj_check"
    /\ IF EventKey(procs[p]) \subseteq processingEvents
       THEN /\ procs' = [procs EXCEPT ![p] = IdleProc]
            /\ joinLog' = SetOutcome(joinLog, procs[p].jix, "duplicate")
            /\ UNCHANGED processingEvents
       ELSE /\ procs' = [procs EXCEPT ![p].pc = "mj_recent"]
            /\ processingEvents' = processingEvents \cup EventKey(procs[p])
            /\ UNCHANGED joinLog
    /\ UNCHANGED <<sheet, log, now, msgs, progress, recentMemberJoins,
                   historyInProgress, historyStartTime, retries, budget>>

\* the same check with the skip window left out
RecentJoin_never == FALSE

RecentJoin == recentMemberJoins # NoTime /\ now - recentMemberJoins < JoinSkipSeconds

\* an accepted join blocks app_mention events of the channel for this long
MentionBlockSeconds == 5

\* recentMentions[channel]: written by an accepted join, in the same step as
\* recentMemberJoins[channelKey], as time.Now().Add(5 * time.Second)
recentMentions ==
    IF recentMemberJoins = NoTime THEN NoTime ELSE recentMemberJoins + MentionBlockSeconds

\* the recent-join check under recentMemberJoinMutex; an accepted join goes on
\* to handleMemberJoined, which calls performHistoryRetrieval with time.Now()
MjRecent(p) ==
    /\ procs[p].pc = "mj_recent"
    /\ IF RecentJoin
       THEN /\ procs' = [procs EXCEPT ![p] = IdleProc]
            /\ processingEvents' = processingEvents \ EventKey(procs[p])
            /\ joinLog' = SetOutcome(joinLog, procs[p].jix, "recent")
            /\ UNCHANGED recentMemberJoins
       ELSE /\ procs' = [procs EXCEPT ![p].pc = "j_begin", ![p].isInitial = TRUE,
                                      ![p].originalStartTime = now]
            /\ recentMemberJoins' = now
            /\ joinLog' = SetOutcome(joinLog, procs[p].jix, "invoked")
            /\ UNCHANGED processingEvents
    /\ UNCHANGED <<sheet, log, now, msgs, progress,
                   historyInProgress, historyStartTime, retries, budget>>

\* --- handleAppMention, reset
\* EnsureChannelSheetExists, ClearSheetData
\* the configuration is checked first
AmClear(p) ==
    /\ procs[p].pc = "am_clear"
    /\ IF Configured(procs[p].cfg)
       THEN /\ sheet' = ClearRows(ensureChannelSheetExists(sheet))
            /\ procs' = [procs EXCEPT ![p].pc = "am_delprog"]
            /\ UNCHANGED <<log, processingEvents>>
       ELSE /\ ReturnNil(p)
            /\ UNCHANGED sheet
    /\ UNCHANGED <<now, msgs, progress, recentMemberJoins,
                   historyInProgress, historyStartTime, retries, joinLog, budget>>

\* handleShowMeCommand: email tells whether the text holds an address, shared
\* whether ShareSpreadsheet succeeds; no backfill follows
AmShowMe(p, email, shared) ==
    LET store == email /\ Configured(procs[p].cfg)
    IN  /\ procs[p].pc = "am_showme"
        /\ procs' = [procs EXCEPT ![p] = IdleProc]
        /\ processingEvents' = processingEvents \ EventKey(procs[p])
        /\ log' = Returned(~store \/ shared, store)
        /\ UNCHANGED <<sheet, now, msgs, progress, recentMemberJoins,
                       historyInProgress, historyStartTime, retries, joinLog, budget>>

\* DeleteProgress, then performHistoryRetrieval with time.Now()
AmDeleteProgress(p) ==
    /\ procs[p].pc = "am_delprog"
    /\ progress' = NoProgress
    /\ procs' = [procs EXCEPT ![p].pc = "j_begin", ![p].isInitial = FALSE,
                              ![p].originalStartTime = now]
    /\ UNCHANGED <<sheet, log, now, msgs, processingEvents, recentMemberJoins,
                   historyInProgress, historyStartTime, retries, joinLog, budget>>

\* --- scheduleHistoryRetry: the goroutine wakes up after its sleep
RetryStart(p, k) ==
    /\ FreeProc(p)
    /\ k \in 1..Len(retries)
    /\ procs' = [procs EXCEPT ![p] = [IdleProc EXCEPT !.pc = "j_begin", !.type = "retry",
                                          !.isInitial = retries[k].isInitial,
                                          !.originalStartTime = retries[k].originalStartTime]]
    /\ retries' = SubSeq(retries, 1, k - 1) \o SubSeq(retries, k + 1, Len(retries))
    /\ UNCHANGED <<sheet, log, now, msgs, progress, processingEvents, recentMemberJoins,
                   historyInProgress, historyStartTime, joinLog, budget>>

\* --- performHistoryRetrievalWithStartTime
\* the return with the deferred clear of the flag and the start time left out
Return_flagKept(p, err, fault) ==
    /\ procs' = [procs EXCEPT ![p] = IdleProc]
    /\ processingEvents' = processingEvents \ EventKey(procs[p])
    /\ UNCHANGED <<historyInProgress, historyStartTime>>
    /\ log' = <<[op |-> "performHistoryRetrieval", ok |-> ~err, fault |-> fault]>>

\* the function returns: its deferred function clears the flag, HandleEvent's
\* deferred function removes the event key
Return(p, err, fault) ==
    /\ procs' = [procs EXCEPT ![p] = IdleProc]
    /\ processingEvents' = processingEvents \ EventKey(procs[p])
    /\ historyInProgress' = FALSE
    /\ historyStartTime' = NoTime
    \* the result of the call that returned last, and the request that failed in it
    /\ log' = <<[op |-> "performHistoryRetrieval", ok |-> ~err, fault |-> fault]>>

\* EnsureChannelSheetExists, the flag and the start time are set; then
\* GetChannelHistoryWithProgress begins: LoadProgress, or the first SaveProgress
JBegin(p) ==
    LET pr == [procs[p] EXCEPT
                  !.n0 = Len(msgs),
                  !.interrupted = \A q \in Procs \ {p} : procs[q].pc \notin FlagPcs]
    IN  /\ procs[p].pc = "j_begin"
        /\ IF ~Configured(procs[p].cfg)
           THEN \* the configuration check: nil is returned before the flag is set
                /\ ReturnNil(p)
                /\ UNCHANGED <<sheet, historyInProgress, historyStartTime, progress>>
           ELSE /\ sheet' = ensureChannelSheetExists(sheet)
                /\ historyInProgress' = TRUE
                /\ historyStartTime' = procs[p].originalStartTime
                /\ IF progress.phase # "none"
                   THEN /\ procs' = [procs EXCEPT ![p] = [pr EXCEPT
                                !.cursor = progress.cursor,
                                !.allRecords = progress.messages,
                                !.loaded = progress.phase,
                                !.pc = IF progress.phase = "completed"
                                       THEN "j_write" ELSE "j_page"]]
                        /\ UNCHANGED progress
                   ELSE /\ procs' = [procs EXCEPT ![p] = [pr EXCEPT !.pc = "j_page"]]
                        /\ progress' = [phase |-> "fetching", cursor |-> 0,
                                        messages |-> << >>]
                /\ UNCHANGED <<log, processingEvents>>
        /\ UNCHANGED <<now, msgs, recentMemberJoins, retries, joinLog, budget>>

\* one round of the paging loop: the page, its thread replies, SaveProgress
JPage(p) ==
    LET pr   == procs[p]
        resp == HistoryResp(msgs, pr.cursor, NoTime, PageLimit)
        all  == pr.allRecords \o PageRecords(msgs, resp.messages)
    IN  /\ pr.pc = "j_page"
        /\ progress' = [phase |-> "fetching", cursor |-> resp.nextCursor, messages |-> all]
        /\ procs' = [procs EXCEPT
                ![p].allRecords = all,
                ![p].cursor = resp.nextCursor,
                ![p].pc = IF ~resp.hasMore \/ resp.nextCursor = 0 THEN "j_final" ELSE "j_page"]
        /\ UNCHANGED <<sheet, log, now, msgs, processingEvents, recentMemberJoins,
                       historyInProgress, historyStartTime, retries, joinLog, budget>>

\* the page request fails after its 4 attempts; on "ratelimited" a retry is
\* scheduled with the same mode and originalStartTime and nil is returned
HistoryRetry_restarted(pr) ==
    [isInitial |-> pr.isInitial, originalStartTime |-> now, delay |-> RetryDelaySeconds]

\* scheduleHistoryRetry(..., isInitialRecording, originalStartTime, 3*time.Minute)
HistoryRetry(pr) ==
    [isInitial |-> pr.isInitial, originalStartTime |-> pr.originalStartTime,
     delay |-> RetryDelaySeconds]

JPageFail(p, rateLimited) ==
    LET pr == procs[p]
    IN  /\ pr.pc = "j_page" /\ CanFail
        /\ budget' = Failed
        /\ retries' = IF rateLimited THEN Append(retries, HistoryRetry(pr)) ELSE retries
        /\ Return(p, ~rateLimited, IF rateLimited THEN "ratelimited" ELSE "history")
        /\ UNCHANGED <<sheet, now, msgs, progress, recentMemberJoins, joinLog>>

\* the records are sorted and saved with phase fetching_completed
JFinal(p) ==
    /\ procs[p].pc = "j_final"
    /\ \E all \in SortOutcomes(procs[p].allRecords) :
           /\ progress' = [phase |-> "fetching_completed", cursor |-> 0, messages |-> all]
           /\ procs' = [procs EXCEPT ![p].allRecords = all, ![p].cursor = 0,
                                     ![p].pc = "j_write"]
    /\ UNCHANGED <<sheet, log, now, msgs, processingEvents, recentMemberJoins,
                   historyInProgress, historyStartTime, retries, joinLog, budget>>

\* no record: "nothing to record" and return
JNothing(p) ==
    /\ procs[p].pc = "j_write" /\ procs[p].allRecords = << >>
    /\ Return(p, FALSE, "none")
    /\ UNCHANGED <<sheet, now, msgs, progress, recentMemberJoins, retries,
                   joinLog, budget>>

\* WriteBatchMessagesFromRow2
JWrite(p) ==
    /\ procs[p].pc = "j_write" /\ procs[p].allRecords # << >>
    /\ \E sorted \in SortOutcomes(procs[p].allRecords) :
           sheet' = UpdateFromRow2(ensureChannelSheetExists(sheet), FromRow2Rows(sorted))
    /\ procs' = [procs EXCEPT ![p].pc = "j_phase", ![p].cursor = 0,
                              ![p].nRecords = Len(procs[p].allRecords),
                              ![p].allRecords = << >>]
    /\ UNCHANGED <<log, now, msgs, progress, processingEvents, recentMemberJoins,
                   historyInProgress, historyStartTime, retries, joinLog, budget>>

\* the bulk write fails after its 4 attempts: the error is returned
JWriteFail(p) ==
    /\ procs[p].pc = "j_write" /\ procs[p].allRecords # << >> /\ CanFail
    /\ budget' = Failed
    /\ Return(p, TRUE, "sheets")
    /\ UNCHANGED <<sheet, now, msgs, progress, recentMemberJoins, retries, joinLog>>

\* UpdatePhase(channel, "completed"): load, set the phase, save
UpdatePhase(pg, phase) == IF pg.phase = "none" THEN pg ELSE [pg EXCEPT !.phase = phase]

JPhase(p) ==
    /\ procs[p].pc = "j_phase"
    /\ progress' = UpdatePhase(progress, "completed")
    /\ procs' = [procs EXCEPT ![p].pc = "j_delete"]
    /\ UNCHANGED <<sheet, log, now, msgs, processingEvents, recentMemberJoins,
                   historyInProgress, historyStartTime, retries, joinLog, budget>>

\* DeleteProgress, then historyStartTime[channel] is read (the zero time when
\* the entry is gone) and the goroutine sleeps
JDelete(p) ==
    /\ procs[p].pc = "j_delete"
    /\ progress' = NoProgress
    /\ procs' = [procs EXCEPT ![p].startTime = historyStartTime, ![p].pc = "j_after"]
    /\ UNCHANGED <<sheet, log, now, msgs, processingEvents, recentMemberJoins,
                   historyInProgress, historyStartTime, retries, joinLog, budget>>

\* getMessagesAfterTime; with no new message the completion message is sent;
\* otherwise WriteBatchMessages reads the sheet and filters out the records
\* it already holds
JAfter(p) ==
    /\ procs[p].pc = "j_after"
    /\ \E newMessages \in getMessagesAfterTime(msgs, procs[p].startTime) :
           IF newMessages = << >>
           THEN /\ Return(p, FALSE, "none")
                /\ UNCHANGED sheet
           ELSE \E sorted \in SortOutcomes(newMessages) :
                   LET data == ensureChannelSheetExists(sheet)
                   IN  /\ sheet' = data
                       /\ IF WriteBatchRows(data, sorted) = << >>
                          THEN Return(p, FALSE, "none")
                          ELSE /\ procs' = [procs EXCEPT ![p].newMessages = sorted,
                                                         ![p].sheetData = data,
                                                         ![p].pc = "j_newappend"]
                               /\ UNCHANGED <<log, processingEvents, historyInProgress,
                                              historyStartTime>>
    /\ UNCHANGED <<now, msgs, progress, recentMemberJoins, retries,
                   joinLog, budget>>

\* getMessagesAfterTime fails: a warning is sent, then the completion message
JAfterFail(p) ==
    /\ procs[p].pc = "j_after" /\ CanFail
    /\ budget' = Failed
    /\ Return(p, FALSE, "history")
    /\ UNCHANGED <<sheet, now, msgs, progress, recentMemberJoins, retries, joinLog>>

\* ... and the rows computed from the loaded data are appended
JNewAppend(p) ==
    /\ procs[p].pc = "j_newappend"
    /\ sheet' = AppendRows(sheet, WriteBatchRows(procs[p].sheetData, procs[p].newMessages))
    /\ Return(p, FALSE, "none")
    /\ UNCHANGED <<now, msgs, progress, recentMemberJoins, retries, joinLog, budget>>

JNewAppendFail(p) ==
    /\ procs[p].pc = "j_newappend" /\ CanFail
    /\ budget' = Failed
    /\ Return(p, TRUE, "sheets")
    /\ UNCHANGED <<sheet, now, msgs, progress, recentMemberJoins, retries, joinLog>>

Next ==
    \/ \E kind \in {"plain", "mention", "reset"}, thread \in 0..MaxMsgs, d \in {0, 1} :
           Post(kind, thread, d)
    \/ \E p \in Procs, m \in 1..MaxMsgs : DeliverMessage(p, m)
    \/ \E p \in Procs, m \in 1..MaxMsgs : DeliverAppMention(p, m)
    \/ \E p \in Procs, u \in Users, d \in {1, JoinSkipSeconds} : DeliverMemberJoined(p, u, d)
    \/ Crash
    \/ \E p \in Procs : MsgCheckFlag(p)
    \/ \E p \in Procs : AmCheck(p)
    \/ \E p \in Procs : WriteRead(p)
    \/ \E p \in Procs : WriteAppend(p)
    \/ \E p \in Procs : WriteAppendFail(p)
    \/ \E p \in Procs : MjCheck(p)
    \/ \E p \in Procs : MjRecent(p)
    \/ \E p \in Procs : AmClear(p)
    \/ \E p \in Procs : AmDeleteProgress(p)
    \/ \E p \in Procs, k \in 1..NumProcs : RetryStart(p, k)
    \/ \E p \in Procs : JBegin(p)
    \/ \E p \in Procs : JPage(p)
    \/ \E p \in Procs, rateLimited \in BOOLEAN : JPageFail(p, rateLimited)
    \/ \E p \in Procs : JFinal(p)
    \/ \E p \in Procs : JNothing(p)
    \/ \E p \in Procs : JWrite(p)
    \/ \E p \in Procs : JWriteFail(p)
    \/ \E p \in Procs : JPhase(p)
    \/ \E p \in Procs : JDelete(p)
    \/ \E p \in Procs : JAfter(p)
    \/ \E p \in Procs : JAfterFail(p)
    \/ \E p \in Procs : JNewAppend(p)
    \/ \E p \in Procs : JNewAppendFail(p)

Spec == Init /\ [][Next]_vars

\* --- handleMessageChanged and UpdateMessage, called one after another with
\* WriteMessage and WriteBatchMessages
\* the texts an edited message may have
EditTexts == {"text", "fixed"}

EditedText_plain(text) == text

\* record.Text + " (edited)"
EditedText(text) == text \o " (edited)"

\* UpdateMessage: the first row whose message id is messageTS, 0 when there is none
TargetRow(sheetData, messageTS) ==
    IF RowsAt(sheetData, messageTS) = {} THEN 0
    ELSE CHOOSE k \in RowsAt(sheetData, messageTS) :
             \A j \in RowsAt(sheetData, messageTS) : k <= j

\* UpdateMessage: the values written over the target row
UpdatedRow(sheetData, targetRow, record, text) ==
    [no     |-> sheetData[targetRow].no,
     sec    |-> record.sec,
     parent |-> IF record.thread # 0 /\ record.thread # record.id
                THEN findThreadParentNoInData(sheetData, record.thread)
                ELSE 0,
     id     |-> record.id,
     text   |-> EditedText(text)]

HandlerErr_dropped(updateErr) == FALSE

\* handleMessageChanged: the error of UpdateMessage is returned
HandlerErr(updateErr) == updateErr

\* one message_changed event: edited tells whether the event carries edit
\* info, apiOk whether Values.Update succeeds within the 4 attempts
HandleMessageChanged(record, text, edited, apiOk) ==
    LET targetRow == TargetRow(sheet, record.id)
        updateErr == targetRow = 0 \/ ~apiOk
    IN  /\ Cardinality({k \in 1..Len(log) : log[k].op = "message_changed"}) < MaxEdits
        /\ sheet' = IF edited /\ ~updateErr
                    THEN [sheet EXCEPT ![targetRow] = UpdatedRow(sheet, targetRow, record, text)]
                    ELSE sheet
        /\ log' = Append(log, [op |-> "message_changed", recs |-> << >>, rec |-> record,
                               text |-> text, edited |-> edited,
                               ok |-> (~edited \/ ~HandlerErr(updateErr))])
        /\ UNCHANGED engineVars

EditNext ==
    \/ \E r \in StoreRecs, apiOk \in BOOLEAN : StoreWriteOne(r, apiOk)
    \/ \E rs \in StoreBatches, apiOk \in BOOLEAN : StoreWriteBatch(rs, apiOk)
    \/ \E r \in StoreRecs, text \in EditTexts, edited, apiOk \in BOOLEAN :
           HandleMessageChanged(r, text, edited, apiOk)

SpecEdit == StoreInit /\ [][EditNext]_vars

\* --- retryWithBackoff, one call
\* what operation() may return: 0 is nil, 1..NumErrors are errors
NoErr == 0
OpResults == 0..NumErrors

\* the call: its place in the loop, attempt, lastErr and the value returned
RetryCall(pc, attempt, lastErr, ret) ==
    [pc |-> pc, attempt |-> attempt, lastErr |-> lastErr, ret |-> ret]

RetryInit ==
    /\ procs = <<RetryCall("r_call", 1, NoErr, NoErr)>>
    /\ log = << >>
    /\ now = 0
    /\ sheet = << >>
    /\ msgs = << >>
    /\ progress = NoProgress
    /\ processingEvents = {}
    /\ recentMemberJoins = NoTime
    /\ historyInProgress = FALSE
    /\ historyStartTime = NoTime
    /\ retries = << >>
    /\ joinLog = << >>
    /\ budget = [events |-> 0, failures |-> 0, crashes |-> 0]

RetryDelay_fixed(attempt) == 1

\* delay := time.Duration(attempt) * time.Second
RetryDelay(attempt) == attempt

\* lastErr = operation(): nil returns nil, an error on the last attempt
\* leaves the loop and returns lastErr, any other error goes on to the sleep
RetryInvoke(e) ==
    LET c == procs[1]
    IN  /\ c.pc = "r_call"
        /\ log' = Append(log, [op |-> "operation", attempt |-> c.attempt, err |-> e])
        /\ procs' = <<IF e = NoErr THEN RetryCall("r_returned", c.attempt, e, NoErr)
                      ELSE IF c.attempt = maxRetryAttempts
                           THEN RetryCall("r_returned", c.attempt, e, e)
                           ELSE RetryCall("r_sleep", c.attempt, e, NoErr)>>
        /\ UNCHANGED <<sheet, now, msgs, progress, processingEvents, recentMemberJoins,
                       historyInProgress, historyStartTime, retries, joinLog, budget>>

\* time.Sleep(delay), attempt++, and the loop condition
RetrySleep ==
    LET c == procs[1]
    IN  /\ c.pc = "r_sleep"
        /\ now' = now + RetryDelay(c.attempt)
        /\ log' = Append(log, [op |-> "sleep", attempt |-> c.attempt,
                                seconds |-> RetryDelay(c.attempt)])
        /\ procs' = <<IF c.attempt + 1 <= maxRetryAttempts
                      THEN RetryCall("r_call", c.attempt + 1, c.lastErr, NoErr)
                      ELSE RetryCall("r_returned", c.attempt + 1, c.lastErr, c.lastErr)>>
        /\ UNCHANGED <<sheet, msgs, progress, processingEvents, recentMemberJoins,
                       historyInProgress, historyStartTime, retries, joinLog, budget>>

RetryNext ==
    \/ \E e \in OpResults : RetryInvoke(e)
    \/ RetrySleep

SpecRetry == RetryInit /\ [][RetryNext]_vars

\* --- one backfill job running alone while messages are posted
\* the channel when the member joins: up to MaxOld unthreaded messages, one a second
JobHistories ==
    {[i \in 1..n |-> [sec |-> i - 1, thread |-> 0, kind |-> "plain"]] : n \in 0..MaxOld}

\* the state in which handleMemberJoined calls performHistoryRetrieval: the
\* join of user 1 has passed both checks of HandleEvent, no table exists
JobInit ==
    /\ msgs \in JobHistories
    /\ now = Len(msgs) + 1
    /\ sheet = << >>
    /\ log = << >>
    /\ progress = NoProgress
    /\ procs = [p \in Procs |->
                  IF p = 1
                  THEN [IdleProc EXCEPT !.pc = "j_begin", !.type = "member_joined_channel",
                                        !.subj = 1, !.jix = 1, !.isInitial = TRUE,
                                        !.originalStartTime = now]
                  ELSE IdleProc]
    /\ processingEvents = EventKey(procs[1])
    /\ recentMemberJoins = now
    /\ historyInProgress = FALSE
    /\ historyStartTime = NoTime
    /\ retries = << >>
    /\ joinLog = <<[user |-> 1, at |-> now, outcome |-> "invoked", epoch |-> 0]>>
    /\ budget = [events |-> 1, failures |-> 0, crashes |-> 0]

\* a message is posted while the job runs
PostDuring(thread, d) ==
    /\ procs[1].pc \in JobPcs
    /\ Len(msgs) < MaxJobMsgs
    /\ PostMsg("plain", thread, d)

JobNext ==
    \/ \E thread \in 0..MaxJobMsgs, d \in {0, 1} : PostDuring(thread, d)
    \/ JBegin(1)
    \/ JPage(1)
    \/ JFinal(1)
    \/ JNothing(1)
    \/ JWrite(1)
    \/ JPhase(1)
    \/ JDelete(1)
    \/ JAfter(1)
    \/ JNewAppend(1)

SpecJob == JobInit /\ [][JobNext]_vars

\* --- the same job when a thread-reply request may fail
\* one round of the paging loop in which getThreadReplies fails for the thread
\* root of the page (a page holds PageLimit = 1 message): the error is logged,
\* the loop goes on to the next message, and the page is saved without replies
JPageRepliesFail(p) ==
    LET pr   == procs[p]
        resp == HistoryResp(msgs, pr.cursor, NoTime, PageLimit)
        page == resp.messages
        all  == pr.allRecords \o [k \in 1..Len(page) |-> HistoryRecord(msgs, page[k])]
    IN  /\ pr.pc = "j_page"
        /\ budget.failures < MaxFailures
        /\ \E k \in 1..Len(page) : IsThreadRoot(msgs, page[k])
        /\ budget' = Failed
        /\ progress' = [phase |-> "fetching", cursor |-> resp.nextCursor, messages |-> all]
        /\ procs' = [procs EXCEPT
                ![p].allRecords = all,
                ![p].cursor = resp.nextCursor,
                ![p].pc = IF ~resp.hasMore \/ resp.nextCursor = 0 THEN "j_final" ELSE "j_page"]
        /\ UNCHANGED <<sheet, log, now, msgs, processingEvents, recentMemberJoins,
                       historyInProgress, historyStartTime, retries, joinLog>>

ThreadNext ==
    \/ JobNext
    \/ JPageRepliesFail(1)

SpecThread == JobInit /\ [][ThreadNext]_vars

\* --- HandleEvent without the configuration
\* a message_changed event: handleMessageChanged checks the configuration first
MessageChangedEvent(cfg, record, text, edited, apiOk) ==
    /\ record.id \in 1..Len(msgs)
    /\ IF Configured(cfg)
       THEN HandleMessageChanged(record, text, edited, apiOk)
       ELSE /\ CanDeliver
            /\ budget' = [budget EXCEPT !.events = @ + 1]
            /\ log' = Returned(TRUE, FALSE)
            /\ UNCHANGED <<sheet, now, msgs, progress, processingEvents, recentMemberJoins,
                           historyInProgress, historyStartTime, retries, procs, joinLog>>

\* the events of one channel while the credentials or the spreadsheet ID is unset
UnsetNext ==
    \/ \E kind \in {"plain"} \cup MentionTexts, d \in {0, 1} : Post(kind, 0, d)
    \/ \E cfg \in UnsetCfgs, p \in Procs, m \in 1..MaxMsgs :
           /\ m \in 1..Len(msgs) /\ msgs[m].kind = "plain"
           /\ HandleEventMessage(cfg, p, m)
    \/ \E cfg \in UnsetCfgs, p \in Procs, m \in 1..MaxMsgs : HandleEventAppMention(cfg, p, m)
    \/ \E cfg \in UnsetCfgs, p \in Procs, u \in Users :
           HandleEventMemberJoined(cfg, p, u, 1)
    \/ \E cfg \in UnsetCfgs, m \in 1..MaxMsgs, text \in EditTexts :
           MessageChangedEvent(cfg, Rec(m, now, 0), text, TRUE, TRUE)
    \/ \E p \in Procs : MsgCheckFlag(p)
    \/ \E p \in Procs : AmCheck(p)
    \/ \E p \in Procs : MjCheck(p)
    \/ \E p \in Procs : MjRecent(p)
    \/ \E p \in Procs : WriteRead(p)
    \/ \E p \in Procs, email, shared \in BOOLEAN : AmShowMe(p, email, shared)
    \/ \E p \in Procs : AmClear(p)
    \/ \E p \in Procs : JBegin(p)

SpecUnset == Init /\ [][UnsetNext]_vars

\* --- app_mention events alone, with the configuration set
MentionNext ==
    \/ \E kind \in MentionTexts, d \in {0, 1} : Post(kind, 0, d)
    \/ \E p \in Procs, m \in 1..MaxMsgs : DeliverAppMention(p, m)
    \/ \E p \in Procs : AmCheck(p)
    \/ \E p \in Procs : WriteRead(p)
    \/ \E p \in Procs : WriteAppend(p)
    \/ \E p \in Procs, email, shared \in BOOLEAN : AmShowMe(p, email, shared)
    \/ \E p \in Procs : AmClear(p)
    \/ \E p \in Procs : AmDeleteProgress(p)
    \/ \E p \in Procs : JBegin(p)
    \/ \E p \in Procs : JPage(p)
    \/ \E p \in Procs : JFinal(p)
    \/ \E p \in Procs : JWrite(p)
    \/ \E p \in Procs : JPhase(p)
    \/ \E p \in Procs : JDelete(p)
    \/ \E p \in Procs : JAfter(p)
    \/ \E p \in Procs : JNewAppend(p)

SpecMention == Init /\ [][MentionNext]_vars

\* --- a message and the events Slack sends for it, with no backfill
\* the message is posted and its events are delivered: a message event for
\* every message, an app_mention event as well when the text mentions the bot
PostAndDeliver(kind, thread, d) ==
    /\ Len(msgs) < MaxJobMsgs
    /\ \A p \in Procs : procs[p].pc = "idle"
    /\ thread # 0 => thread \in 1..Len(msgs) /\ msgs[thread].thread = 0 /\ kind = "plain"
    /\ now' = now + d
    /\ msgs' = Append(msgs, [sec |-> now + d, thread |-> thread, kind |-> kind])
    /\ procs' = [p \in Procs |->
           IF p = 1
           THEN [IdleProc EXCEPT !.pc = "msg_flag", !.type = "message",
                                 !.subj = Len(msgs) + 1]
           ELSE IF p = 2 /\ kind \in MentionTexts
           THEN [IdleProc EXCEPT !.pc = "am_check", !.type = "app_mention",
                                 !.subj = Len(msgs) + 1]
           ELSE IdleProc]
    /\ budget' = [budget EXCEPT !.events = @ + (IF kind \in MentionTexts THEN 2 ELSE 1)]
    /\ UNCHANGED <<sheet, log, progress, processingEvents, recentMemberJoins,
                   historyInProgress, historyStartTime, retries, joinLog>>

MarkerNext ==
    \/ \E kind \in {"plain", "mention", UserMentionText}, thread \in 0..MaxJobMsgs,
          d \in {0, 1} : PostAndDeliver(kind, thread, d)
    \/ \E p \in Procs : MsgCheckFlag(p)
    \/ \E p \in Procs : AmCheck(p)
    \/ \E p \in Procs : WriteRead(p)
    \/ \E p \in Procs : WriteAppend(p)

SpecMarker == Init /\ [][MarkerNext]_vars

\* --- one backfill job with its retries, every goroutine being scheduled
\* a request of the job fails; at most MaxFailures requests fail, so that rate
\* limiting stops
LiveFailure ==
    \/ \E p \in Procs, rateLimited \in BOOLEAN : JPageFail(p, rateLimited)
    \/ \E p \in Procs : JWriteFail(p)
    \/ \E p \in Procs : JAfterFail(p)
    \/ \E p \in Procs : JNewAppendFail(p)

\* a step of the job, or the end of the sleep of a scheduled retry: every
\* request returns and every goroutine goes on
LiveStep ==
    \/ \E p \in Procs, k \in 1..NumProcs : RetryStart(p, k)
    \/ \E p \in Procs : JBegin(p)
    \/ \E p \in Procs : JPage(p)
    \/ \E p \in Procs : JFinal(p)
    \/ \E p \in Procs : JNothing(p)
    \/ \E p \in Procs : JWrite(p)
    \/ \E p \in Procs : JPhase(p)
    \/ \E p \in Procs : JDelete(p)
    \/ \E p \in Procs : JAfter(p)
    \/ \E p \in Procs : JNewAppend(p)

\* a message is posted while a job or a retry is under way
LivePost(thread, d) ==
    /\ \E p \in Procs : procs[p].pc \in JobPcs
    /\ Len(msgs) < MaxMsgs
    /\ PostMsg("plain", thread, d)

LiveNext ==
    \/ \E thread \in 0..MaxMsgs, d \in {0, 1} : LivePost(thread, d)
    \/ LiveFailure
    \/ LiveStep

SpecLive == JobInit /\ [][LiveNext]_vars /\ WF_vars(LiveStep)

\* --- HandleEvent and performHistoryRetrievalWithStartTime, lock by lock
\* the four sync.Mutex values of the package
Mutexes == {"processingMutex", "recentMutex", "recentMemberJoinMutex",
            "historyProgressMutex"}
Handlers == 1..NumHandlers

\* a goroutine: where it is, the event it handles, the mutexes it holds
LockIdle == [pc |-> "idle", type |-> "none", subj |-> 0, held |-> {}]

\* the goroutines that hold the mutex
Holder(mu) == {p \in Handlers : mu \in procs[p].held}

\* the goroutine is in a request to Slack, Sheets or the progress file, or asleep
CallPcs == {"mj_call", "am_call", "msg_call", "h_pre", "h_fetch", "h_after"}

\* main.go starts HandleEvent in a goroutine; d seconds have passed
LkDeliver(p, type, subj, d) ==
    /\ procs[p].pc = "idle" /\ budget.events < MaxLockEvents
    /\ d # 0 => recentMemberJoins # NoTime /\ now - recentMemberJoins < JoinSkipSeconds
    /\ now' = now + d
    /\ procs' = [procs EXCEPT ![p] =
            [LockIdle EXCEPT !.type = type, !.subj = subj,
                             !.pc = CASE type = "member_joined_channel" -> "mj_lock"
                                      [] type = "app_mention" -> "am_lock"
                                      [] OTHER -> "msg_lock"]]
    /\ budget' = [budget EXCEPT !.events = @ + 1]
    /\ UNCHANGED <<sheet, log, msgs, progress, processingEvents, recentMemberJoins,
                   historyInProgress, historyStartTime, retries, joinLog>>

\* mu.Lock(): the goroutine waits until no goroutine holds the mutex
Acquire(p, mu, from, to) ==
    /\ procs[p].pc = from
    /\ Holder(mu) = {}
    /\ procs' = [procs EXCEPT ![p].pc = to, ![p].held = @ \cup {mu}]
    /\ UNCHANGED <<sheet, log, now, msgs, progress, processingEvents, recentMemberJoins,
                   historyInProgress, historyStartTime, retries, joinLog, budget>>

\* mu.Unlock() and the jump that follows it
Released(p, mu, to) == procs' = [procs EXCEPT ![p].pc = to, ![p].held = @ \ {mu}]

\* member_joined_channel: processingMutex.Lock()
LkMjLock(p) == Acquire(p, "processingMutex", "mj_lock", "mj_check")

\* the key is tested and set, processingMutex.Unlock() on both paths
LkMjCheck(p) ==
    /\ procs[p].pc = "mj_check"
    /\ IF EventKey(procs[p]) \subseteq processingEvents
       THEN /\ Released(p, "processingMutex", "idle")
            /\ UNCHANGED processingEvents
       ELSE /\ Released(p, "processingMutex", "mj_lock2")
            /\ processingEvents' = processingEvents \cup EventKey(procs[p])
    /\ UNCHANGED <<sheet, log, now, msgs, progress, recentMemberJoins,
                   historyInProgress, historyStartTime, retries, joinLog, budget>>

\* recentMemberJoinMutex.Lock()
LkMjLock2(p) == Acquire(p, "recentMemberJoinMutex", "mj_lock2", "mj_recent")

\* the recent-join test with the Unlock of the skip path left out
LkMjRecent_held(p) ==
    /\ procs[p].pc = "mj_recent"
    /\ IF RecentJoin
       THEN /\ procs' = [procs EXCEPT ![p].pc = "mj_lock3"]
            /\ UNCHANGED recentMemberJoins
       ELSE /\ Released(p, "recentMemberJoinMutex", "mj_lock4")
            /\ recentMemberJoins' = now
    /\ UNCHANGED <<sheet, log, now, msgs, progress, processingEvents,
                   historyInProgress, historyStartTime, retries, joinLog, budget>>

\* the recent-join test, recentMemberJoinMutex.Unlock() on both paths
LkMjRecent(p) ==
    /\ procs[p].pc = "mj_recent"
    /\ IF RecentJoin
       THEN /\ Released(p, "recentMemberJoinMutex", "mj_lock3")
            /\ UNCHANGED recentMemberJoins
       ELSE /\ Released(p, "recentMemberJoinMutex", "mj_lock4")
            /\ recentMemberJoins' = now
    /\ UNCHANGED <<sheet, log, now, msgs, progress, processingEvents,
                   historyInProgress, historyStartTime, retries, joinLog, budget>>

\* the skip path: processingMutex.Lock()
LkMjLock3(p) == Acquire(p, "processingMutex", "mj_lock3", "mj_del")

\* delete(processingEvents, eventKey), Unlock, return nil
LkMjDel(p) ==
    /\ procs[p].pc = "mj_del"
    /\ Released(p, "processingMutex", "idle")
    /\ processingEvents' = processingEvents \ EventKey(procs[p])
    /\ UNCHANGED <<sheet, log, now, msgs, progress, recentMemberJoins,
                   historyInProgress, historyStartTime, retries, joinLog, budget>>

\* recentMutex.Lock()
LkMjLock4(p) == Acquire(p, "recentMutex", "mj_lock4", "mj_block")

\* recentMentions[channel] is written, Unlock; handleMemberJoined is called
LkMjBlock(p) ==
    /\ procs[p].pc = "mj_block"
    /\ Released(p, "recentMutex", "mj_call")
    /\ UNCHANGED <<sheet, log, now, msgs, progress, processingEvents, recentMemberJoins,
                   historyInProgress, historyStartTime, retries, joinLog, budget>>

\* app_mention: processingMutex.Lock()
LkAmLock(p) == Acquire(p, "processingMutex", "am_lock", "am_check")

\* the key is tested and set, Unlock on both paths; handleAppMention is called
LkAmCheck(p) ==
    /\ procs[p].pc = "am_check"
    /\ IF EventKey(procs[p]) \subseteq processingEvents
       THEN /\ Released(p, "processingMutex", "idle")
            /\ UNCHANGED processingEvents
       ELSE /\ Released(p, "processingMutex", "am_call")
            /\ processingEvents' = processingEvents \cup EventKey(procs[p])
    /\ UNCHANGED <<sheet, log, now, msgs, progress, recentMemberJoins,
                   historyInProgress, historyStartTime, retries, joinLog, budget>>

\* message: historyProgressMutex.Lock()
LkMsgLock(p) == Acquire(p, "historyProgressMutex", "msg_lock", "msg_check")

\* the flag is read, Unlock on both paths; the message is recorded unless skipped
LkMsgCheck(p) ==
    /\ procs[p].pc = "msg_check"
    /\ Released(p, "historyProgressMutex", IF SkipForHistory THEN "idle" ELSE "msg_call")
    /\ UNCHANGED <<sheet, log, now, msgs, progress, processingEvents, recentMemberJoins,
                   historyInProgress, historyStartTime, retries, joinLog, budget>>

\* a request returns, or a sleep ends, and the goroutine goes on: to the next
\* Lock, or to its return through the deferred functions it has registered
LkCall(p, to) ==
    /\ procs[p].pc \in CallPcs
    /\ to \in CASE procs[p].pc = "msg_call" -> {"idle"}
                [] procs[p].pc = "mj_call" -> {"h_pre"}
                \* a reset goes on to the backfill, any other mention returns
                [] procs[p].pc = "am_call" -> {"h_pre", "d_lock_p"}
                \* a return before the flag is set, or the flag is set
                [] procs[p].pc = "h_pre" ->
                       {"h_lock"} \cup (IF procs[p].type = "retry" THEN {"idle"}
                                        ELSE {"d_lock_p"})
                \* an error return, or the start time is read
                [] procs[p].pc = "h_fetch" -> {"d_lock_h", "h_lock2"}
                [] OTHER -> {"d_lock_h"}
    /\ procs' = [procs EXCEPT ![p].pc = to]
    /\ UNCHANGED <<sheet, log, now, msgs, progress, processingEvents, recentMemberJoins,
                   historyInProgress, historyStartTime, retries, joinLog, budget>>

\* the history request is rate limited: scheduleHistoryRetry, return nil
LkRateLimited(p) ==
    /\ procs[p].pc = "h_fetch" /\ budget.failures < MaxFailures
    /\ budget' = Failed
    /\ retries' = Append(retries, [isInitial |-> procs[p].type # "app_mention",
                                   originalStartTime |-> historyStartTime,
                                   delay |-> RetryDelaySeconds])
    /\ procs' = [procs EXCEPT ![p].pc = "d_lock_h"]
    /\ UNCHANGED <<sheet, log, now, msgs, progress, processingEvents, recentMemberJoins,
                   historyInProgress, historyStartTime, joinLog>>

\* the goroutine of scheduleHistoryRetry wakes up
LkRetryStart(p) ==
    /\ procs[p].pc = "idle" /\ retries # << >>
    /\ procs' = [procs EXCEPT ![p] = [LockIdle EXCEPT !.pc = "h_pre", !.type = "retry"]]
    /\ retries' = Tail(retries)
    /\ UNCHANGED <<sheet, log, now, msgs, progress, processingEvents, recentMemberJoins,
                   historyInProgress, historyStartTime, joinLog, budget>>

\* performHistoryRetrievalWithStartTime: historyProgressMutex.Lock()
LkHLock(p) == Acquire(p, "historyProgressMutex", "h_lock", "h_set")

\* the flag and the start time are set, Unlock; the deferred clear is registered
LkHSet(p) ==
    /\ procs[p].pc = "h_set"
    /\ Released(p, "historyProgressMutex", "h_fetch")
    /\ historyInProgress' = TRUE
    /\ historyStartTime' = now
    /\ UNCHANGED <<sheet, log, now, msgs, progress, processingEvents, recentMemberJoins,
                   retries, joinLog, budget>>

\* after the bulk write: historyProgressMutex.Lock()
LkHLock2(p) == Acquire(p, "historyProgressMutex", "h_lock2", "h_read")

\* the start time is read, Unlock; the sleep and the race-window query follow
LkHRead(p) ==
    /\ procs[p].pc = "h_read"
    /\ Released(p, "historyProgressMutex", "h_after")
    /\ UNCHANGED <<sheet, log, now, msgs, progress, processingEvents, recentMemberJoins,
                   historyInProgress, historyStartTime, retries, joinLog, budget>>

\* the deferred function of the backfill: historyProgressMutex.Lock()
LkDLockH(p) == Acquire(p, "historyProgressMutex", "d_lock_h", "d_clear")

\* both entries are deleted, Unlock; HandleEvent's deferred function is next,
\* the goroutine of a retry has none
LkDClear(p) ==
    /\ procs[p].pc = "d_clear"
    /\ Released(p, "historyProgressMutex",
                IF procs[p].type = "retry" THEN "idle" ELSE "d_lock_p")
    /\ historyInProgress' = FALSE
    /\ historyStartTime' = NoTime
    /\ UNCHANGED <<sheet, log, now, msgs, progress, processingEvents, recentMemberJoins,
                   retries, joinLog, budget>>

\* the deferred function of HandleEvent: processingMutex.Lock()
LkDLockP(p) == Acquire(p, "processingMutex", "d_lock_p", "d_del")

\* delete(processingEvents, eventKey), Unlock; HandleEvent returns
LkDDel(p) ==
    /\ procs[p].pc = "d_del"
    /\ Released(p, "processingMutex", "idle")
    /\ processingEvents' = processingEvents \ EventKey(procs[p])
    /\ UNCHANGED <<sheet, log, now, msgs, progress, recentMemberJoins,
                   historyInProgress, historyStartTime, retries, joinLog, budget>>

\* a step of a goroutine that has been started
LkStep ==
    \/ \E p \in Handlers : LkMjLock(p)
    \/ \E p \in Handlers : LkMjCheck(p)
    \/ \E p \in Handlers : LkMjLock2(p)
    \/ \E p \in Handlers : LkMjRecent(p)
    \/ \E p \in Handlers : LkMjLock3(p)
    \/ \E p \in Handlers : LkMjDel(p)
    \/ \E p \in Handlers : LkMjLock4(p)
    \/ \E p \in Handlers : LkMjBlock(p)
    \/ \E p \in Handlers : LkAmLock(p)
    \/ \E p \in Handlers : LkAmCheck(p)
    \/ \E p \in Handlers : LkMsgLock(p)
    \/ \E p \in Handlers : LkMsgCheck(p)
    \/ \E p \in Handlers, to \in {"idle", "h_pre", "h_lock", "h_lock2",
                                  "d_lock_h", "d_lock_p"} : LkCall(p, to)
    \/ \E p \in Handlers : LkRateLimited(p)
    \/ \E p \in Handlers : LkHLock(p)
    \/ \E p \in Handlers : LkHSet(p)
    \/ \E p \in Handlers : LkHLock2(p)
    \/ \E p \in Handlers : LkHRead(p)
    \/ \E p \in Handlers : LkDLockH(p)
    \/ \E p \in Handlers : LkDClear(p)
    \/ \E p \in Handlers : LkDLockP(p)
    \/ \E p \in Handlers : LkDDel(p)

LockInit ==
    /\ sheet = << >>
    /\ log = << >>
    /\ now = 0
    /\ msgs = << >>
    /\ progress = NoProgress
    /\ processingEvents = {}
    /\ recentMemberJoins = NoTime
    /\ historyInProgress = FALSE
    /\ historyStartTime = NoTime
    /\ retries = << >>
    /\ procs = [p \in Handlers |-> LockIdle]
    /\ joinLog = << >>
    /\ budget = [events |-> 0, failures |-> 0, crashes |-> 0]

LockNext ==
    \/ \E p \in Handlers, u \in Users, d \in {0, JoinSkipSeconds} :
           LkDeliver(p, "member_joined_channel", u, d)
    \/ \E p \in Handlers : LkDeliver(p, "app_mention", 1, 0)
    \/ \E p \in Handlers : LkDeliver(p, "message", 0, 0)
    \/ \E p \in Handlers : LkRetryStart(p)
    \/ LkStep

SpecLock == LockInit /\ [][LockNext]_vars

\* --- getMessagesAfterTime, one call
\* the channel: up to MaxAfterMsgs messages in the order they were posted,
\* each a top-level message or a reply to an earlier top-level message
AfterHistories ==
    {h \in UNION {[1..n -> [sec : 0..MaxAfterSec, thread : 0..MaxAfterMsgs, kind : {"plain"}]] :
                     n \in 0..MaxAfterMsgs} :
        \A i \in 1..Len(h) :
            /\ i > 1 => h[i - 1].sec <= h[i].sec
            /\ h[i].thread # 0 => h[i].thread < i /\ h[h[i].thread].thread = 0}

AfterInit ==
    /\ msgs \in AfterHistories
    /\ \E afterTime \in 0..MaxAfterSec :
           procs = <<[pc |-> "a_call", afterTime |-> afterTime, allRecords |-> << >>]>>
    /\ now = MaxAfterSec
    /\ sheet = << >>
    /\ log = << >>
    /\ progress = NoProgress
    /\ processingEvents = {}
    /\ recentMemberJoins = NoTime
    /\ historyInProgress = FALSE
    /\ historyStartTime = NoTime
    /\ retries = << >>
    /\ joinLog = << >>
    /\ budget = [events |-> 0, failures |-> 0, crashes |-> 0]

\* the call returns one of the orders its final sort may produce
AfterCall ==
    /\ procs[1].pc = "a_call"
    /\ \E allRecords \in getMessagesAfterTime(msgs, procs[1].afterTime) :
           procs' = <<[procs[1] EXCEPT !.pc = "a_returned", !.allRecords = allRecords]>>
    /\ UNCHANGED <<sheet, log, now, msgs, progress, processingEvents, recentMemberJoins,
                   historyInProgress, historyStartTime, retries, joinLog, budget>>

AfterNext == AfterCall

SpecAfter == AfterInit /\ [][AfterNext]_vars

\* ------------------------------------------------------------ claim helpers
RECURSIVE OkRecs(_)
OkRecs(calls) ==
    IF calls = << >> THEN << >>
    ELSE OkRecs(SubSeq(calls, 1, Len(calls) - 1)) \o
         (IF calls[Len(calls)].ok THEN calls[Len(calls)].recs ELSE << >>)

DistinctIds(records) ==
    \A i, j \in 1..Len(records) : records[i].id = records[j].id => i = j

RowsWithId(values, id) == {i \in 2..Len(values) : values[i].id = id}

DenseFromOne(values) == \A i \in 2..Len(values) : values[i].no = i - 1

\* the calls of the log that carry identifier id
CallsWithId(id) ==
    {k \in 1..Len(log) : \E i \in 1..Len(log[k].recs) : log[k].recs[i].id = id}

\* how often identifier id was handed to the adapter by successful calls
TimesWritten(id) ==
    Cardinality({i \in 1..Len(OkRecs(log)) : OkRecs(log)[i].id = id})

\* ------------------------------------------------------------------- claims
\* the goroutines that are inside performHistoryRetrievalWithStartTime
Jobs == {p \in Procs : procs[p].pc \in JobPcs}

\* goroutine p leaves performHistoryRetrievalWithStartTime in this step
JobReturns(p) ==
    /\ procs[p].pc \in JobPcs
    /\ procs'[p].pc = "idle"
    /\ budget'.crashes = budget.crashes

\* goroutine p appends the row of a single message in this step
LiveWrite(p) ==
    /\ procs[p].pc = "w_append"
    /\ procs'[p].pc # "w_append"
    /\ sheet' # sheet

\* C1: in every reachable state no two data rows of the channel's table carry
\* the same message identifier, whatever the interleaving of live writes,
\* app-mention writes, backfills, resets, retries and resumes.
C1_NoDuplicateRows ==
    \A id \in 1..MaxMsgs : Cardinality(RowsWithId(sheet, id)) <= 1

\* C2: once a backfill job has returned, on whatever exit path, every message
\* posted between its start and its return has a data row.
C2_NoLossAcrossBackfill ==
    [][\A p \in Procs : JobReturns(p) =>
           \A i \in (procs[p].n0 + 1)..Len(msgs) : RowsWithId(sheet', i) # {}]_vars

\* C3: no single-row write of a live handler (message or app-mention path)
\* is executed while the history-in-progress flag of the channel is set.
C3_NoLiveWriteDuringBackfill ==
    [][\A p \in Procs : LiveWrite(p) => ~historyInProgress]_vars

\* C4: at most one backfill job is in flight for the channel at any time.
C4_SingleBackfill == Cardinality(Jobs) <= 1

\* two deliveries of member_joined_channel for the same user, at most one
\* second apart, with no restart of the process in between
JoinPair(i, j) ==
    /\ i < j
    /\ joinLog[i].user = joinLog[j].user
    /\ joinLog[i].epoch = joinLog[j].epoch
    /\ joinLog[j].at - joinLog[i].at <= 1

\* ... and no third delivery for that user since the process started
OnlyPair(i, j) ==
    /\ JoinPair(i, j)
    /\ \A k \in 1..Len(joinLog) \ {i, j} :
           joinLog[k].user # joinLog[i].user \/ joinLog[k].epoch # joinLog[i].epoch

Invoked(k) == joinLog[k].outcome = "invoked"
Settled(k) == joinLog[k].outcome # "pending"

\* the handler of a member_joined_channel delivery returns without a backfill
JoinSkipped(p) ==
    /\ procs[p].pc \in {"mj_check", "mj_recent"}
    /\ procs'[p].pc = "idle"
    /\ budget'.crashes = budget.crashes

C6_DenseSequencing ==
    DistinctIds(OkRecs(log)) =>
        /\ Len(sheet) - 1 = Len(OkRecs(log))
        /\ DenseFromOne(sheet)

C6_Witness ==
    /\ Len(log) = 2
    /\ log[1].op = "writeOne" /\ log[1].ok
    /\ log[2].op = "writeBatch" /\ log[2].ok /\ Len(log[2].recs) = 2
    /\ DistinctIds(OkRecs(log))
    /\ Len(sheet) = 4

\* C7: in every reachable state the No. column of the data rows is dense and
\* strictly increasing from 1, also when two live handlers read the row
\* count before either appends.
C7_DenseAlways == DenseFromOne(sheet)

\* C8: an identifier handed to the adapter twice (two writeOne, two
\* writeBatch, one of each, or two entries of one writeBatch) has exactly
\* one data row, and the later of two calls carrying it reports success.
C8_IdempotentDedup ==
    \A id \in StoreIds :
        /\ TimesWritten(id) >= 2 => Cardinality(RowsWithId(sheet, id)) = 1
        /\ \A k \in CallsWithId(id) :
               (\E k0 \in CallsWithId(id) : k0 < k /\ log[k0].ok) /\ Len(log[k].recs) = 1
                   => log[k].ok


\* C9: a backfill resumed from the checkpoint of phase "fetching" that an
\* interrupted job left (no other job is running) hands every
\* record of the saved buffer and of the remaining pages to the bulk write
\* exactly once (also when the checkpoint was saved after the last page).
C9_ResumeExactlyOnce ==
    \A p \in Procs :
        procs[p].pc = "j_write" /\ procs[p].loaded = "fetching" /\ procs[p].interrupted
            => /\ DistinctIds(procs[p].allRecords)
               /\ \A i \in 1..procs[p].n0 :
                      \E k \in 1..Len(procs[p].allRecords) : procs[p].allRecords[k].id = i

\* C10: when the reset of a channel completes successfully, the data rows are
\* the records of one fresh full backfill, numbered from 1: every message is
\* there once and no other row remains.
C10_ResetExact ==
    [][\A p \in Procs :
           JobReturns(p) /\ procs[p].type = "app_mention"
           /\ procs[p].pc \in {"j_after", "j_newappend"} /\ budget'.failures = budget.failures
               => /\ DenseFromOne(sheet')
                  /\ \A i \in 1..procs[p].n0 : Cardinality(RowsWithId(sheet', i)) = 1
                  /\ \A i \in (procs[p].n0 + 1)..MaxMsgs :
                         Cardinality(RowsWithId(sheet', i)) <= 1]_vars

\* the thread parent of the record with identifier id in the store
\* specification (0 = not a reply), and the rows of it above row k
StoreThread(id) == IF id = 2 THEN 1 ELSE 0
ParentRowsAbove(values, k) == {j \in 2..(k - 1) : values[j].id = StoreThread(values[k].id)}

BulkWrite(p) == procs[p].pc = "j_write" /\ procs'[p].pc = "j_phase"
BulkRows(p) == SubSeq(sheet', 1, Len(procs[p].allRecords) + 1)

\* C12: in the bulk write of a backfill every reply whose parent is in the
\* same batch gets a thread-parent field holding the sequence number given to
\* the parent, also when parent and reply fall in the same second.
C12_BulkThreadParentNo ==
    [][\A p \in Procs : BulkWrite(p) =>
          \A k \in 2..Len(BulkRows(p)) :
              LET thread == msgs[BulkRows(p)[k].id].thread
              IN  (thread # 0 /\ RowsWithId(BulkRows(p), thread) # {}) =>
                      \E j \in RowsWithId(BulkRows(p), thread) :
                          BulkRows(p)[k].parent = BulkRows(p)[j].no]_vars

\* the message handler p runs its history-in-progress check and finds the
\* flag of the channel set
FlagFoundSet(p) ==
    /\ procs[p].pc = "msg_flag"
    /\ procs'[p].pc # "msg_flag"
    /\ budget'.crashes = budget.crashes
    /\ historyInProgress

\* C13: a message event handled while the history-in-progress flag of its
\* channel is set ends there: the handler returns without reading or writing
\* the table and without an error (no request was made that could fail).
C13_SkippedWhileInProgress ==
    [][\A p \in Procs : FlagFoundSet(p) =>
          /\ procs'[p] = IdleProc
          /\ sheet' = sheet
          /\ budget' = budget]_vars

\* one plain message, one join whose backfill has not written yet, and one
\* message event that is over without a row, a failure or a restart: the
\* event was skipped at the flag check
C13_Witness ==
    /\ Len(msgs) = 1 /\ msgs[1].kind = "plain"
    /\ Len(joinLog) = 1 /\ budget.events = 2
    /\ budget.failures = 0 /\ budget.crashes = 0
    /\ historyInProgress
    /\ \E p \in Procs : /\ procs[p].pc = "j_final"
                         /\ \A q \in Procs \ {p} : procs[q].pc = "idle"
    /\ RowsWithId(sheet, 1) = {}

\* totalRecorded of the completion message: len(records), plus len(newMessages)
\* when the race-window pass found messages
TotalRecorded(p) ==
    procs[p].nRecords +
    (IF procs[p].pc = "j_newappend" THEN Len(procs[p].newMessages)
     ELSE Len(AfterLoop(msgs, procs[p].startTime, 0, << >>)))

\* job p returns after sending its completion message, no request having failed
JobCompletes(p) ==
    /\ JobReturns(p)
    /\ procs[p].pc \in {"j_after", "j_newappend"}
    /\ budget' = budget

\* job p is an initial backfill that ran alone: the join that started it is
\* the only event delivered, nothing failed, nothing was posted after the join
\* and no message is a thread reply
InitialAlone(p) ==
    /\ procs[p].isInitial
    /\ budget.events = 1 /\ budget.failures = 0 /\ budget.crashes = 0
    /\ procs[p].n0 = Len(msgs)
    /\ \A i \in 1..Len(msgs) :
           msgs[i].thread = 0 /\ msgs[i].sec <= procs[p].originalStartTime

\* the header row and Len(ms) data rows, numbered 1.., one per message, in
\* ascending timestamp order
HeaderAndAllRows(values, ms) ==
    /\ Len(values) = Len(ms) + 1
    /\ values[1] = HeaderRow
    /\ \A k \in 2..Len(values) : values[k].no = k - 1
    /\ \A k \in 2..(Len(values) - 1) : values[k].sec <= values[k + 1].sec
    /\ \A i \in 1..Len(ms) :
           \E k \in 2..Len(values) : values[k].id = i /\ values[k].sec = ms[i].sec

\* C14: when an initial backfill of a channel without a table returns
\* successfully and ran with no concurrent event, over a history of n
\* unthreaded messages, the table holds the header row and exactly n data rows
\* numbered 1..n in ascending timestamp order, and the completion message
\* reports n.
C14_InitialBackfill ==
    [][\A p \in Procs : (JobCompletes(p) /\ InitialAlone(p)) =>
          /\ HeaderAndAllRows(sheet', msgs)
          /\ TotalRecorded(p) = Len(msgs)]_vars

\* two messages, then one join and no other event: its backfill is over and
\* the table has two data rows
C14_Witness ==
    /\ Len(msgs) = 2 /\ \A i \in 1..2 : msgs[i].thread = 0
    /\ budget = [events |-> 1, failures |-> 0, crashes |-> 0]
    /\ Len(joinLog) = 1 /\ joinLog[1].outcome = "invoked"
    /\ \A i \in 1..2 : msgs[i].sec < joinLog[1].at
    /\ \A p \in Procs : procs[p].pc = "idle"
    /\ Len(sheet) = 3

\* read in ascending sequence number, the data rows have non-decreasing timestamps
OrderedByNo(values) ==
    \A j, k \in 2..Len(values) :
        values[j].no < values[k].no => values[j].sec <= values[k].sec

\* C15: when a backfill job returns successfully (bulk write, then the
\* race-window write), resumed and retried jobs included, the data rows read
\* in ascending sequence number have non-decreasing timestamps.
C15_OrderedAfterBackfill ==
    [][\A p \in Procs : JobCompletes(p) => OrderedByNo(sheet')]_vars

\* the place of a phase in the order fetching, fetching_completed, writing, completed
PhaseRank(phase) ==
    CASE phase = "fetching" -> 1
      [] phase = "fetching_completed" -> 2
      [] phase = "writing" -> 3
      [] phase = "completed" -> 4

\* C16: from the creation of the checkpoint of a channel to its deletion the
\* persisted phase never moves backward in the order fetching,
\* fetching_completed, writing, completed, whatever saves, resumes, retries
\* and repeated triggers happen in between.
C16_PhaseMonotonic ==
    [][(progress.phase # "none" /\ progress'.phase # "none") =>
          PhaseRank(progress.phase) <= PhaseRank(progress'.phase)]_vars

\* job p returns because its history request failed with a rate limit error
RateLimitedReturn(p) ==
    /\ JobReturns(p)
    /\ procs[p].pc = "j_page"
    /\ log'[1].fault = "ratelimited"

\* C17: when the history fetch of a backfill fails with a rate limit error,
\* the call returns no error, exactly one retry is scheduled, for after the
\* cooldown, with the mode (initial or reset) and the originalStartTime of
\* the call, and the checkpoint written so far is left as it is.
C17_RateLimitRetry ==
    [][\A p \in Procs : RateLimitedReturn(p) =>
          /\ log'[1].ok
          /\ Len(retries') = Len(retries) + 1
          /\ retries'[Len(retries')] =
                 [isInitial |-> procs[p].isInitial,
                  originalStartTime |-> procs[p].originalStartTime,
                  delay |-> RetryDelaySeconds]
          /\ SubSeq(retries', 1, Len(retries)) = retries
          /\ progress' = progress]_vars

\* a rate-limited job has returned, some time after it was started, with a
\* page already saved in the checkpoint; its retry is waiting
C17_Witness ==
    /\ log = <<[op |-> "performHistoryRetrieval", ok |-> TRUE, fault |-> "ratelimited"]>>
    /\ Len(retries) = 1
    /\ retries[1].originalStartTime < now
    /\ progress.phase = "fetching" /\ progress.messages # << >>
    /\ \A p \in Procs : procs[p].pc = "idle"

\* the invocations of the operation and the sleeps of the call, in order
Invocations == SelectSeq(log, LAMBDA x : x.op = "operation")
Sleeps == SelectSeq(log, LAMBDA x : x.op = "sleep")
FailedBeforeLast == {k \in 1..Len(Invocations) : Invocations[k].err # NoErr /\ k <= 3}

EditHandled ==
    /\ Len(log') = Len(log) + 1
    /\ log'[Len(log')].op = "message_changed"
    /\ log'[Len(log')].edited

\* the event handled in this step
Edit == log'[Len(log')]

\* C19: updateOne on a record whose message id is in the table rewrites only
\* the row of that id: the number of rows and every other row are unchanged,
\* the row keeps its sequence number, and when the update succeeds its text is the new
\* text followed by the "(edited)" marker.
C19_UpdateOnlyThatRow ==
    [][(EditHandled /\ RowsWithId(sheet, Edit.rec.id) # {}) =>
          /\ Len(sheet') = Len(sheet)
          /\ \E k \in RowsWithId(sheet, Edit.rec.id) :
                 /\ \A j \in 1..Len(sheet) : j # k => sheet'[j] = sheet[j]
                 /\ sheet'[k].no = sheet[k].no
                 /\ sheet'[k].id = sheet[k].id
                 /\ Edit.ok => sheet'[k].text = Edit.text \o " (edited)"
                 /\ ~Edit.ok => sheet'[k] = sheet[k]]_vars

\* three rows were written and the message of the second was edited with
\* success: the row has the new text and the marker, its neighbours have not
C19_Witness ==
    /\ Len(sheet) = 4
    /\ Len(log) >= 2
    /\ log[Len(log)].op = "message_changed" /\ log[Len(log)].edited /\ log[Len(log)].ok
    /\ log[Len(log)].text = "fixed"
    /\ sheet[3].id = log[Len(log)].rec.id
    /\ sheet[3].no = 2 /\ sheet[3].text = "fixed (edited)"
    /\ sheet[2].text = "text" /\ sheet[4].text = "text"

\* C20: a message-edited event for a message id that has no row in the table
\* makes the handler return an error and leaves the table as it is: no row
\* is appended for the message.
C20_EditOfUnknownFails ==
    [][(EditHandled /\ RowsWithId(sheet, Edit.rec.id) = {}) =>
          /\ ~Edit.ok
          /\ sheet' = sheet]_vars

\* the table holds rows, none for the message whose edit was handled last,
\* and that handler returned an error
C20_Witness ==
    /\ Len(sheet) >= 2
    /\ Len(log) >= 2
    /\ log[Len(log)].op = "message_changed" /\ log[Len(log)].edited
    /\ ~log[Len(log)].ok
    /\ RowsWithId(sheet, log[Len(log)].rec.id) = {}

\* job p returns because its bulk write failed after the 4 attempts
BulkWriteFails(p) ==
    /\ JobReturns(p)
    /\ procs[p].pc = "j_write"
    /\ log'[1].fault = "sheets"

\* C22: when the bulk write of a backfill fails after the retry executor is
\* exhausted, the backfill call returns an error and the checkpoint of the
\* channel still exists when the call returns.
C22_BulkFailureKeepsCheckpoint ==
    [][\A p \in Procs : BulkWriteFails(p) =>
          /\ ~log'[1].ok
          /\ progress'.phase # "none"]_vars

\* the checkpoint of the channel is deleted in this step by the job p, which
\* has finished its bulk write
CheckpointDeleted(p) ==
    /\ procs[p].pc = "j_delete"
    /\ procs'[p].pc = "j_after"
    /\ progress.phase # "none"
    /\ progress'.phase = "none"

\* C23: the checkpoint of a channel is deleted only after the bulk write has
\* been committed and the race-window messages have been captured: at the
\* deletion no message posted since the start of the job is without a row.
C23_DeleteAfterRaceWindow ==
    [][\A p \in Procs : CheckpointDeleted(p) =>
          \A i \in 1..Len(msgs) :
              msgs[i].sec > procs[p].originalStartTime => RowsWithId(sheet, i) # {}]_vars

\* job p fetches a history page in this step
PageFetch(p) == procs[p].pc = "j_page" /\ procs'[p].pc # "j_page"

\* C24: a backfill whose loaded checkpoint is in phase completed fetches no
\* history page and makes no write to the table.
C24_CompletedShortCircuits ==
    [][\A p \in Procs : procs[p].loaded = "completed" =>
          ~PageFetch(p) /\ ~BulkWrite(p)]_vars

\* the backfill that the reset mention handled by p launched begins: it loads
\* the checkpoint or creates one
ResetBackfillBegins(p) ==
    /\ procs[p].pc = "j_begin"
    /\ procs[p].type = "app_mention"
    /\ procs'[p].pc \in JobPcs \ {"j_begin"}

\* C25: a backfill launched by a reset mention starts with an empty cursor
\* and an empty buffer and goes on to page the history from the start, in every interleaving,
\* also when another backfill of the channel saves its checkpoint meanwhile.
C25_ResetStartsFromScratch ==
    [][\A p \in Procs : ResetBackfillBegins(p) =>
          /\ procs'[p].pc = "j_page"
          /\ procs'[p].cursor = 0
          /\ procs'[p].allRecords = << >>]_vars

\* job p makes its race-window query in this step
RaceWindowQuery(p) ==
    /\ procs[p].pc = "j_after"
    /\ procs'[p].pc # "j_after"
    /\ budget'.crashes = budget.crashes

\* C26: the race-window query of a backfill job has as its lower bound the
\* originalStartTime of the job (the one its first attempt captured and its
\* retries carried along), in every interleaving with other backfill calls.
C26_RaceWindowFromOriginalStart ==
    [][\A p \in Procs : RaceWindowQuery(p) =>
          procs[p].startTime = procs[p].originalStartTime]_vars

\* C27: the history-in-progress flag of the channel is set whenever some
\* backfill call is between setting the flag and returning, also when two
\* calls overlap and one of them returns first.
C27_FlagWhileAnyBackfill ==
    (\E p \in Procs : procs[p].pc \in FlagPcs) => historyInProgress

\* the handler of p has marked its event key and has not returned
Marked(p) ==
    /\ procs[p].type \in {"member_joined_channel", "app_mention"}
    /\ procs[p].pc \notin {"idle", "mj_check", "am_check"}

\* C28: an event key is in the in-flight set exactly while the handler that
\* marked it is running: every exit of the member-joined and app-mention
\* branches removes it, a suppressed duplicate does not, and no key is held by
\* two handlers.
C28_KeyWhileHandlerRuns ==
    /\ processingEvents = UNION {EventKey(procs[p]) : p \in {q \in Procs : Marked(q)}}
    /\ \A p, q \in Procs :
          Marked(p) /\ Marked(q) /\ p # q => EventKey(procs[p]) # EventKey(procs[q])

\* a duplicate member-joined delivery was suppressed and the handler it
\* duplicates is still running with its key marked
C28_Witness ==
    \E p \in Procs, k \in 1..Len(joinLog) :
        /\ Marked(p)
        /\ procs[p].type = "member_joined_channel"
        /\ procs[p].pc \in JobPcs
        /\ joinLog[k].outcome = "duplicate"
        /\ joinLog[k].user = procs[p].subj
        /\ joinLog[k].epoch = budget.crashes
        /\ k > procs[p].jix
        /\ EventKey(procs[p]) \subseteq processingEvents

\* the app_mention handler of p records the row of a mention that was posted
\* after the last accepted join of the channel, before the cooldown set by that
\* join has run out
MentionRecordedInCooldown(p) ==
    /\ procs[p].type = "app_mention"
    /\ procs[p].pc = "w_append"
    /\ Len(sheet') > Len(sheet)
    /\ recentMentions # NoTime
    /\ msgs[procs[p].subj].sec > recentMemberJoins
    /\ now < recentMentions

\* C29: after a member-joined event of the channel was accepted, an
\* app-mention of the channel that arrives within the cooldown window is not
\* handled: no row is recorded for it.
C29_MentionBlockedAfterJoin ==
    [][\A p \in Procs : ~MentionRecordedInCooldown(p)]_vars

\* where a goroutine is only after a request to the spreadsheet
StorePcs == {"w_append", "am_delprog"} \cup FlagPcs

\* C21: while the credentials or the spreadsheet ID is unset (every delivery of
\* SpecUnset), no event of any type leads to a request to the spreadsheet,
\* HandleEvent returns no error, and what has returned leaves no in-flight key
\* and no history-in-progress flag behind.
C21_UnsetIsNoOp ==
    /\ sheet = << >>
    /\ progress = NoProgress
    /\ ~historyInProgress
    /\ \A p \in Procs : procs[p].pc \notin StorePcs
    /\ \A k \in 1..Len(log) : log[k].ok /\ ~log[k].store
    /\ processingEvents = UNION {EventKey(procs[p]) : p \in {q \in Procs : Marked(q)}}

\* without the configuration a join was accepted and went as far as the
\* backfill, a mention that says reset was posted, and every handler has returned
C21_Witness ==
    /\ \E k \in 1..Len(joinLog) : joinLog[k].outcome = "invoked"
    /\ \E m \in 1..Len(msgs) : isResetRequest(msgs[m].kind)
    /\ budget.events = MaxEvents
    /\ \A p \in Procs : procs[p].pc = "idle"
    /\ log = Returned(TRUE, FALSE)
    /\ processingEvents = {}

\* the handler of an accepted mention whose text contains "reset" returns
ResetMentionReturns(p) ==
    /\ Marked(p)
    /\ procs[p].type = "app_mention"
    /\ isResetRequest(msgs[procs[p].subj].kind)
    /\ procs'[p].pc = "idle"

\* C30: every accepted app-mention whose text contains "reset" in any letter
\* case clears the table and launches a backfill in reset mode, also when the
\* text contains "show me": its handler returns only out of that backfill.
C30_ResetAlwaysResets ==
    [][\A p \in Procs : ResetMentionReturns(p) =>
          procs[p].pc \in FlagPcs /\ ~procs[p].isInitial]_vars

\* every event of every message posted so far has been handled
Quiet == \A p \in Procs : procs[p].pc = "idle"

\* C31: a posted message whose text contains a mention marker is skipped by
\* the message path and recorded by the app-mention path: with no backfill in
\* flight, once its events are handled it has exactly one row.
C31_MarkerMessageOneRow ==
    Quiet => \A m \in 1..Len(msgs) :
                 ContainsMarker(msgs[m].kind) => Cardinality(RowsWithId(sheet, m)) = 1

\* the job of p saves the checkpoint after a page
PageSaved(p) ==
    /\ procs[p].pc = "j_page"
    /\ procs'[p].pc \in {"j_page", "j_final"}
    /\ progress'.phase = "fetching"
    /\ progress'.messages = procs'[p].allRecords

\* C32: at every checkpoint save made while paging, the saved buffer holds
\* each record of the pages fetched exactly once, also in a run that resumed
\* from a checkpoint left in phase fetching_completed or writing.
C32_SavedBufferExactlyOnce ==
    [][\A p \in Procs : PageSaved(p) => DistinctIds(progress'.messages)]_vars

\* the messages whose records the save of this step adds to the buffer
NewlySaved(p) ==
    {i \in 1..Len(msgs) :
        /\ \E k \in 1..Len(procs'[p].allRecords) : procs'[p].allRecords[k].id = i
        /\ \A k \in 1..Len(procs[p].allRecords) : procs[p].allRecords[k].id # i}

\* C33: a page is saved as fetched, with the cursor advanced, only when its
\* fetch has fully succeeded: the save that adds a thread root to the buffer
\* adds the replies of that thread as well.
C33_PageSavedWithReplies ==
    [][\A p \in Procs : PageSaved(p) =>
          \A root \in NewlySaved(p) : RepliesOf(msgs, root) \subseteq NewlySaved(p)]_vars

\* C34: after WriteBatchMessagesFromRow2 has succeeded with n records, on a
\* table that held any number m of data rows, the data rows of the table are
\* exactly those n records numbered 1..n.
C34_FromRow2ReplacesTable ==
    (log # << >> /\ log[Len(log)].op = "writeFromRow2" /\ log[Len(log)].ok) =>
        \E sorted \in SortOutcomes(log[Len(log)].recs) :
            sheet = <<HeaderRow>> \o FromRow2Rows(sorted)

\* the messages posted strictly after afterTime: top-level messages, and
\* replies in threads whose root is newer than afterTime
PostedAfter(ms, afterTime) ==
    {i \in 1..Len(ms) :
        /\ ms[i].sec > afterTime
        /\ ms[i].thread # 0 => ms[ms[i].thread].sec > afterTime}

\* C35: the race-window fetch returns every message posted strictly after
\* afterTime (top-level messages, and replies in threads whose root is newer
\* than afterTime) and no message at or before afterTime.
C35_AfterTimeComplete ==
    procs[1].pc = "a_returned" =>
        {procs[1].allRecords[k].id : k \in 1..Len(procs[1].allRecords)}
            = PostedAfter(msgs, procs[1].afterTime)

\* the job of p, not started by a reset, resumed from a checkpoint in phase
\* fetching_completed, and the last backfill to return had failed in its bulk write
ResumedAfterBulkFailure(p) ==
    /\ procs[p].loaded = "fetching_completed"
    /\ procs[p].type # "app_mention"
    /\ log # << >> /\ log[1].fault = "sheets"

\* C36: after a bulk-write failure has left the checkpoint in place, a later
\* backfill of the channel without a reset writes each historical message
\* exactly once: the records of the checkpoint buffer are not written a second
\* time alongside the pages fetched again.
C36_ResumeWritesOnce ==
    [][\A p \in Procs : BulkWrite(p) /\ ResumedAfterBulkFailure(p) =>
          DistinctIds(procs[p].allRecords)]_vars

\* C37: while a rate-limit retry of the channel is scheduled and has not yet
\* started, the history-in-progress flag is set, so that live message events
\* are suppressed.
C37_FlagWhileRetryScheduled ==
    retries # << >> => historyInProgress

\* the rows the job of p has written when it completes in this step: those of
\* the bulk write and those its race-window write appends
RowsWritten(p) == procs[p].nRecords + (Len(sheet') - Len(sheet))

\* C38: the total reported in the completion message of a backfill equals the
\* number of rows the job wrote to the table, bulk write plus race-window
\* write, also when race-window messages were filtered out as duplicates.
C38_TotalIsRowsWritten ==
    [][\A p \in Procs : JobCompletes(p) => TotalRecorded(p) = RowsWritten(p)]_vars

\* no backfill call is running or scheduled, the flag and the start time of
\* the channel are cleared
BackfillOver ==
    /\ \A p \in Procs : procs[p].pc = "idle"
    /\ retries = << >>
    /\ ~historyInProgress
    /\ historyStartTime = NoTime

\* C39: with finitely many pages, every request returning and rate limiting
\* stopping, a triggered backfill reaches its final return, after which the
\* flag and the start time of the channel are cleared and no retry is scheduled.
C39_BackfillEnds == <>[]BackfillOver

\* the backfill is over with rows written, after a request had failed and the
\* retry it scheduled has run
C39_Witness ==
    /\ BackfillOver
    /\ budget.failures = MaxFailures
    /\ log # << >> /\ log[1].ok /\ log[1].fault = "none"
    /\ Len(sheet) > 1

\* C40: no handler holds two of the four mutexes at once, none is held while
\* a handler is in an external call or has returned, and whenever a handler
\* has not returned some handler can take a step: the mutexes never deadlock.
C40_OneMutexAtATime ==
    /\ \A p \in Handlers :
           /\ Cardinality(procs[p].held) <= 1
           /\ procs[p].pc \in CallPcs \cup {"idle"} => procs[p].held = {}
    /\ \A mu \in Mutexes : Cardinality(Holder(mu)) <= 1
    /\ (\E p \in Handlers : procs[p].pc # "idle") => ENABLED LkStep

\* a handler is in the skip path's critical section of processingMutex while a
\* second one waits for that mutex and a third one holds historyProgressMutex
C40_Witness ==
    \E p, q, r \in Handlers :
        /\ procs[p].pc = "mj_del" /\ procs[p].held = {"processingMutex"}
        /\ procs[q].pc \in {"mj_lock", "am_lock", "d_lock_p"}
        /\ procs[r].held = {"historyProgressMutex"}
====
